---- MODULE Spec2Model ----
(***************************************************************************)
(* FHEBlackjack: the encrypted Blackjack engine (FHEBlackjack.sol).        *)
(*                                                                         *)
(* An encrypted value is a record [h, v]: h is the ciphertext handle, v    *)
(* the plaintext it encrypts.  The engine never branches on v; v is read   *)
(* only by the FHE operators (add, eq, lt, gt, select), which compute on   *)
(* plaintexts exactly as the homomorphic operations compute on             *)
(* ciphertexts.  Who may decrypt a handle is recorded in the access        *)
(* control list, per handle: allowed (the accounts FHE.allow has granted   *)
(* it to) and publicDecrypt (FHE.makePubliclyDecryptable).  FHE.allowThis  *)
(* lets the contract itself compute on a handle in a later transaction;    *)
(* the contract calls it on every handle it reads again (deck cards, sums, *)
(* base sums, ace counts, bet), so no transaction fails for lack of it and *)
(* it discloses nothing: grants to the contract are not recorded.          *)
(*                                                                         *)
(* deck[i] is stored as the card code; its handle is DeckHandle(id, i).    *)
(*                                                                         *)
(* Every external function is one atomic transaction.  A transaction that  *)
(* fails a require reverts: it returns its reason and the state it was     *)
(* called in.                                                              *)
(***************************************************************************)
EXTENDS Integers, Sequences, FiniteSets, TLC

VARIABLES
    games,          \* mapping(uint256 => Game)
    nextGameId,     \* uint256
    chipBalances,   \* mapping(address => uint256)
    ethBalance,     \* address(this).balance, in units of 10^13 wei
    allowed,        \* ACL: set of <<handle, account>> persistent grants
    publicDecrypt,  \* ACL: set of publicly decryptable handles
    runA, runB,     \* two engine states run side by side over decks that
                    \* differ in the hole card only
    hand,           \* the arithmetic module fed card by card: the cards so
                    \* far and the three values addCardToSum returned last
    app             \* the front end (App component): its action lock, the
                    \* handler invocations in flight, one run of the dealer loop

vars == <<games, nextGameId, chipBalances, ethBalance, allowed, publicDecrypt,
          runA, runB, hand, app>>

MaxCalls == 2         \* handler invocations in one behaviour of the front end
----------------------------------------------------------------------------
(* Bounds of the model *)

MaxGames == 1        \* hands created in one behaviour
MaxDraws == 1        \* cards drawn (hit and dealerHit) per hand
MaxBalance == 4      \* chips one account holds
MaxCards == 4        \* cards fed through addCardToSum in a row
MaxTwinDraws == 2    \* hits per hand in the side-by-side runs

(* Program constants *)

CHIP_PER_ETH == 10000
ETHER == 100000      \* 1 ether in units of 10^13 wei
DECK_SIZE == 52
FIRST_DRAW == 4      \* deckIndex after the deal

Players == {"p1", "p2"}
NOBODY == "0x0"      \* address(0)

PlayerTurn == "PlayerTurn"
DealerTurn == "DealerTurn"
GameEnding == "GameEnding"
Completed == "Completed"
Phase == {PlayerTurn, DealerTurn, GameEnding, Completed}

\* the slots of the games mapping the model keeps: 0, which nextGameId never
\* reaches, and one slot more than the hands the main specification creates
GameIds == 0..(MaxGames + 1)

----------------------------------------------------------------------------
(* Ciphertext handles *)

Handle(g, f, n) == [g |-> g, f |-> f, n |-> n]
NoHandle == Handle(0, "none", 0)

Enc(h, v) == [h |-> h, v |-> v]
Uninit == Enc(NoHandle, 0)

\* FHE.asEuint32(v) / FHE.asEuint8(v): trivial encryption, one handle per value
asEuint(v) == Enc(Handle(0, "trivial", v), v)

\* the handle a field gets when it is assigned the result of a new computation
Fresh(id, f, old) == Handle(id, f, IF old.h.f = f /\ old.h.g = id THEN old.h.n + 1 ELSE 0)

\* g.deck[i] of hand id: the handle FHE.fromExternal gave the i-th card
DeckHandle(id, i) == Handle(id, "deck", i)
deckAt(id, g, i) == Enc(DeckHandle(id, i), g.deck[i])

----------------------------------------------------------------------------
(* Encrypted arithmetic module: plaintext semantics of the FHE circuits *)

\* variant: the King is not taken for a face card
getBlackjackBaseValue_noKing(card) ==
    LET isFaceCard == (card = 11) \/ (card = 12)
        faceCardValue == 10
        cardAs32 == 0 + card
    IN  IF isFaceCard THEN faceCardValue ELSE cardAs32

getBlackjackBaseValue(card) ==
    LET isFaceCard == (card = 11) \/ ((card = 12) \/ (card = 13))
        faceCardValue == 10
        cardAs32 == 0 + card
    IN  IF isFaceCard THEN faceCardValue ELSE cardAs32

\* variant: the soft Ace is used only below 21
calculateBlackjackSum_strict(baseSum, aceCount) ==
    LET hasAce == aceCount > 0
        sumWithSoftAce == baseSum + 10
        canUseSoftAce == sumWithSoftAce < 21
        shouldAddTen == hasAce /\ canUseSoftAce
    IN  IF shouldAddTen THEN sumWithSoftAce ELSE baseSum

calculateBlackjackSum(baseSum, aceCount) ==
    LET hasAce == aceCount > 0
        sumWithSoftAce == baseSum + 10
        canUseSoftAce == sumWithSoftAce <= 21
        shouldAddTen == hasAce /\ canUseSoftAce
    IN  IF shouldAddTen THEN sumWithSoftAce ELSE baseSum

\* variant: an Ace raises the ace count by two
addCardToSum_aceTwice(currentBaseSum, currentAceCount, card) ==
    LET baseValue == getBlackjackBaseValue(card)
        newBaseSum == currentBaseSum + baseValue
        isAce == card = 1
        aceIncrement == IF isAce THEN 2 ELSE 0
        newAceCount == currentAceCount + aceIncrement
    IN  [newBaseSum |-> newBaseSum,
         newAceCount |-> newAceCount,
         finalSum |-> calculateBlackjackSum(newBaseSum, newAceCount)]

addCardToSum(currentBaseSum, currentAceCount, card) ==
    LET baseValue == getBlackjackBaseValue(card)
        newBaseSum == currentBaseSum + baseValue
        isAce == card = 1
        aceIncrement == IF isAce THEN 1 ELSE 0
        newAceCount == currentAceCount + aceIncrement
    IN  [newBaseSum |-> newBaseSum,
         newAceCount |-> newAceCount,
         finalSum |-> calculateBlackjackSum(newBaseSum, newAceCount)]

----------------------------------------------------------------------------
(* Contract storage *)

NoGame ==
    [player |-> NOBODY,
     betAmount |-> Uninit,
     plainBetAmount |-> 0,
     deck |-> [i \in 0..(DECK_SIZE - 1) |-> 0],
     deckIndex |-> 0,
     playerCard1 |-> Uninit,
     playerCard2 |-> Uninit,
     dealerCardUp |-> Uninit,
     dealerHoleCard |-> Uninit,
     playerSum |-> Uninit,
     dealerSum |-> Uninit,
     playerBaseSum |-> Uninit,
     dealerBaseSum |-> Uninit,
     playerAceCount |-> Uninit,
     dealerAceCount |-> Uninit,
     bustFlag |-> Uninit,
     winFlag |-> Uninit,
     continueFlag |-> Uninit,
     phase |-> PlayerTurn,
     exists |-> FALSE]

\* variant: the constructor leaves nextGameId at its default
Deployed_fromZero ==
    [games |-> [id \in GameIds |-> NoGame],
     nextGameId |-> 0,
     chipBalances |-> [a \in Players |-> 0],
     ethBalance |-> 0,
     allowed |-> {},
     publicDecrypt |-> {}]

\* the state after the constructor
Deployed ==
    [games |-> [id \in GameIds |-> NoGame],
     nextGameId |-> 1,
     chipBalances |-> [a \in Players |-> 0],
     ethBalance |-> 0,
     allowed |-> {},
     publicDecrypt |-> {}]

\* a transaction's outcome: the revert reason ("" when it succeeded) and the
\* state it leaves
Revert(s, reason) == [err |-> reason, s |-> s]
Ok(s) == [err |-> "", s |-> s]

\* addCardToSum on the encrypted accumulators of one side of hand id
addCardEnc(id, fBase, fAces, fSum, base, aces, sum, card) ==
    LET r == addCardToSum(base.v, aces.v, card.v)
    IN  [base |-> Enc(Fresh(id, fBase, base), r.newBaseSum),
         aces |-> Enc(Fresh(id, fAces, aces), r.newAceCount),
         sum  |-> Enc(Fresh(id, fSum, sum), r.finalSum)]

----------------------------------------------------------------------------
(* Chips *)

buyChips(s, sender, value) ==
    LET amount == (value * CHIP_PER_ETH) \div ETHER
    IN  IF ~(value > 0) THEN Revert(s, "Send ETH to buy CHIP")
        ELSE IF ~(amount > 0) THEN Revert(s, "Amount too small")
        ELSE Ok([s EXCEPT !.chipBalances[sender] = @ + amount,
                          !.ethBalance = @ + value])

\* variant: the seller's chip balance is not checked
sellChipsRequire_noBalance(s, sender, chipAmount, transferOk) ==
    LET ethAmount == (chipAmount * ETHER) \div CHIP_PER_ETH
    IN  IF ~(chipAmount > 0) THEN "Zero amount"
        ELSE IF ~(ethAmount > 0) THEN "Amount too small"
        ELSE IF ~(s.ethBalance >= ethAmount) THEN "Casino lacks ETH"
        ELSE IF ~transferOk THEN "ETH transfer failed"
        ELSE ""

\* the requires of sellChips; transferOk: whether msg.sender accepts the ETH
sellChipsRequire(s, sender, chipAmount, transferOk) ==
    LET ethAmount == (chipAmount * ETHER) \div CHIP_PER_ETH
    IN  IF ~(chipAmount > 0) THEN "Zero amount"
        ELSE IF ~(s.chipBalances[sender] >= chipAmount) THEN "Insufficient CHIP balance"
        ELSE IF ~(ethAmount > 0) THEN "Amount too small"
        ELSE IF ~(s.ethBalance >= ethAmount) THEN "Casino lacks ETH"
        ELSE IF ~transferOk THEN "ETH transfer failed"
        ELSE ""

sellChips(s, sender, chipAmount, transferOk) ==
    LET ethAmount == (chipAmount * ETHER) \div CHIP_PER_ETH
        e == sellChipsRequire(s, sender, chipAmount, transferOk)
    IN  IF e # "" THEN Revert(s, e)
        ELSE Ok([s EXCEPT !.chipBalances[sender] = @ - chipAmount,
                          !.ethBalance = @ - ethAmount])

----------------------------------------------------------------------------
(* Game logic.  encDeck is the caller's 52 card codes and encryptedBet the  *)
(* caller's bet, both encrypted by the caller: FHE.fromExternal gives each  *)
(* input of a call a handle of its own.                                     *)

\* variant: the caller's chip balance is not checked
startGameRequire_noFunds(s, sender, plainBet) ==
    IF ~(plainBet > 0) THEN "Bet required"
    ELSE ""

startGameRequire(s, sender, plainBet) ==
    IF ~(plainBet > 0) THEN "Bet required"
    ELSE IF ~(s.chipBalances[sender] >= plainBet) THEN "Insufficient CHIP balance"
    ELSE ""

\* the player's sum over the first two cards
playerStart(gameId, deck) ==
    LET p1 == addCardEnc(gameId, "playerBaseSum", "playerAceCount", "playerSum",
                         asEuint(0), asEuint(0), Uninit, deck[0])
    IN  addCardEnc(gameId, "playerBaseSum", "playerAceCount", "playerSum",
                   p1.base, p1.aces, p1.sum, deck[1])

\* variant: the dealer's first sum counts the hole card too
dealerStart_withHole(gameId, deck) ==
    LET d1 == addCardEnc(gameId, "dealerBaseSum", "dealerAceCount", "dealerSum",
                         asEuint(0), asEuint(0), Uninit, deck[2])
    IN  addCardEnc(gameId, "dealerBaseSum", "dealerAceCount", "dealerSum",
                   d1.base, d1.aces, d1.sum, deck[3])

\* "Dealer sum starts with card up"
dealerStart(gameId, deck) ==
    addCardEnc(gameId, "dealerBaseSum", "dealerAceCount", "dealerSum",
               asEuint(0), asEuint(0), Uninit, deck[2])

\* variant: the player may decrypt the hole card from the start
startGameAllowed_hole(g, sender) ==
    {<<e.h, sender>> : e \in {g.playerCard1, g.playerCard2, g.playerSum, g.dealerSum,
                              g.dealerHoleCard}}

\* the handles startGame lets the player decrypt
startGameAllowed(g, sender) ==
    {<<e.h, sender>> : e \in {g.playerCard1, g.playerCard2, g.playerSum, g.dealerSum}}

startGame(s, sender, encDeck, encryptedBet, plainBet) ==
    LET e == startGameRequire(s, sender, plainBet) IN
    IF e # "" THEN Revert(s, e)
    ELSE
    LET gameId == s.nextGameId
        deck == [i \in 0..(DECK_SIZE - 1) |-> Enc(DeckHandle(gameId, i), encDeck[i])]
        p == playerStart(gameId, deck)
        d == dealerStart(gameId, deck)
        g == [player |-> sender,
              betAmount |-> Enc(Handle(gameId, "bet", 0), encryptedBet),
              plainBetAmount |-> plainBet,
              deck |-> encDeck,
              deckIndex |-> FIRST_DRAW,
              playerCard1 |-> deck[0],
              playerCard2 |-> deck[1],
              dealerCardUp |-> deck[2],
              dealerHoleCard |-> deck[3],
              playerSum |-> p.sum,
              dealerSum |-> d.sum,
              playerBaseSum |-> p.base,
              dealerBaseSum |-> d.base,
              playerAceCount |-> p.aces,
              dealerAceCount |-> d.aces,
              bustFlag |-> asEuint(0),
              winFlag |-> asEuint(0),
              continueFlag |-> asEuint(0),
              phase |-> PlayerTurn,
              exists |-> TRUE]
    IN  Ok([s EXCEPT !.chipBalances[sender] = @ - plainBet,
                     !.nextGameId = @ + 1,
                     !.games[gameId] = g,
                     !.allowed = @ \cup startGameAllowed(g, sender),
                     !.publicDecrypt = @ \cup {g.dealerCardUp.h}])

\* variant: hit does not check the phase
hitRequire_noPhase(g, sender) ==
    IF ~(g.exists /\ g.player = sender) THEN "invalid player"
    ELSE IF ~(g.deckIndex < DECK_SIZE) THEN "deck empty"
    ELSE ""

\* variant: hit checks the phase before the caller
hitRequire_phaseFirst(g, sender) ==
    IF ~(g.phase = PlayerTurn) THEN "wrong phase"
    ELSE IF ~(g.exists /\ g.player = sender) THEN "invalid player"
    ELSE IF ~(g.deckIndex < DECK_SIZE) THEN "deck empty"
    ELSE ""

hitRequire(g, sender) ==
    IF ~(g.exists /\ g.player = sender) THEN "invalid player"
    ELSE IF ~(g.phase = PlayerTurn) THEN "wrong phase"
    ELSE IF ~(g.deckIndex < DECK_SIZE) THEN "deck empty"
    ELSE ""

\* variant: a sum of 21 already counts as bust
hit_bustAt21(s, sender, gameId) ==
    LET g == s.games[gameId]
        e == hitRequire(g, sender)
    IN
    IF e # "" THEN Revert(s, e)
    ELSE
    LET newCard == deckAt(gameId, g, g.deckIndex)
        r == addCardEnc(gameId, "playerBaseSum", "playerAceCount", "playerSum",
                        g.playerBaseSum, g.playerAceCount, g.playerSum, newCard)
        bustFlag == Enc(Fresh(gameId, "bustFlag", g.bustFlag),
                        IF r.sum.v >= 21 THEN 1 ELSE 0)
    IN  Ok([s EXCEPT !.games[gameId] =
                        [g EXCEPT !.deckIndex = @ + 1,
                                  !.playerBaseSum = r.base,
                                  !.playerAceCount = r.aces,
                                  !.playerSum = r.sum,
                                  !.bustFlag = bustFlag],
                     !.allowed = @ \cup {<<newCard.h, g.player>>, <<r.sum.h, g.player>>},
                     !.publicDecrypt = @ \cup {bustFlag.h}])

hit(s, sender, gameId) ==
    LET g == s.games[gameId]
        e == hitRequire(g, sender)
    IN
    IF e # "" THEN Revert(s, e)
    ELSE
    LET newCard == deckAt(gameId, g, g.deckIndex)
        r == addCardEnc(gameId, "playerBaseSum", "playerAceCount", "playerSum",
                        g.playerBaseSum, g.playerAceCount, g.playerSum, newCard)
        bustFlag == Enc(Fresh(gameId, "bustFlag", g.bustFlag),
                        IF r.sum.v > 21 THEN 1 ELSE 0)
    IN  Ok([s EXCEPT !.games[gameId] =
                        [g EXCEPT !.deckIndex = @ + 1,
                                  !.playerBaseSum = r.base,
                                  !.playerAceCount = r.aces,
                                  !.playerSum = r.sum,
                                  !.bustFlag = bustFlag],
                     !.allowed = @ \cup {<<newCard.h, g.player>>, <<r.sum.h, g.player>>},
                     !.publicDecrypt = @ \cup {bustFlag.h}])

standRequire(g, sender) ==
    IF ~(g.exists /\ g.player = sender) THEN "invalid player"
    ELSE IF ~(g.phase = PlayerTurn) THEN "wrong phase"
    ELSE ""

\* variant: the dealer continues on 17 too
stand_on17(s, sender, gameId) ==
    LET g == s.games[gameId]
        e == standRequire(g, sender)
    IN
    IF e # "" THEN Revert(s, e)
    ELSE
    LET r == addCardEnc(gameId, "dealerBaseSum", "dealerAceCount", "dealerSum",
                        g.dealerBaseSum, g.dealerAceCount, g.dealerSum, g.dealerHoleCard)
        continueFlag == Enc(Fresh(gameId, "continueFlag", g.continueFlag),
                            IF r.sum.v <= 17 THEN 1 ELSE 0)
    IN  Ok([s EXCEPT !.games[gameId] =
                        [g EXCEPT !.dealerBaseSum = r.base,
                                  !.dealerAceCount = r.aces,
                                  !.dealerSum = r.sum,
                                  !.continueFlag = continueFlag,
                                  !.phase = DealerTurn],
                     !.allowed = @ \cup {<<r.sum.h, g.player>>},
                     !.publicDecrypt = @ \cup {r.sum.h, continueFlag.h}])

\* variant: the sum that stand replaces loses the grant it had
stand_dropOld(s, sender, gameId) ==
    LET g == s.games[gameId]
        e == standRequire(g, sender)
    IN
    IF e # "" THEN Revert(s, e)
    ELSE
    LET r == addCardEnc(gameId, "dealerBaseSum", "dealerAceCount", "dealerSum",
                        g.dealerBaseSum, g.dealerAceCount, g.dealerSum, g.dealerHoleCard)
        continueFlag == Enc(Fresh(gameId, "continueFlag", g.continueFlag),
                            IF r.sum.v < 17 THEN 1 ELSE 0)
    IN  Ok([s EXCEPT !.games[gameId] =
                        [g EXCEPT !.dealerBaseSum = r.base,
                                  !.dealerAceCount = r.aces,
                                  !.dealerSum = r.sum,
                                  !.continueFlag = continueFlag,
                                  !.phase = DealerTurn],
                     !.allowed = (@ \ {<<g.dealerSum.h, g.player>>}) \cup {<<r.sum.h, g.player>>},
                     !.publicDecrypt = @ \cup {r.sum.h, continueFlag.h}])

stand(s, sender, gameId) ==
    LET g == s.games[gameId]
        e == standRequire(g, sender)
    IN
    IF e # "" THEN Revert(s, e)
    ELSE
    LET r == addCardEnc(gameId, "dealerBaseSum", "dealerAceCount", "dealerSum",
                        g.dealerBaseSum, g.dealerAceCount, g.dealerSum, g.dealerHoleCard)
        continueFlag == Enc(Fresh(gameId, "continueFlag", g.continueFlag),
                            IF r.sum.v < 17 THEN 1 ELSE 0)
    IN  Ok([s EXCEPT !.games[gameId] =
                        [g EXCEPT !.dealerBaseSum = r.base,
                                  !.dealerAceCount = r.aces,
                                  !.dealerSum = r.sum,
                                  !.continueFlag = continueFlag,
                                  !.phase = DealerTurn],
                     !.allowed = @ \cup {<<r.sum.h, g.player>>},
                     !.publicDecrypt = @ \cup {r.sum.h, continueFlag.h}])

\* variant: only the hand's owner may let the dealer draw
dealerHitRequire_ownerOnly(g, sender) ==
    IF ~(g.exists /\ g.player = sender) THEN "invalid player"
    ELSE IF ~(g.phase = DealerTurn) THEN "invalid state"
    ELSE IF ~(g.deckIndex < DECK_SIZE) THEN "deck empty"
    ELSE ""

\* variant: dealerHit does not check that a card is left
dealerHitRequire_noDeck(g, sender) ==
    IF ~(g.exists /\ g.phase = DealerTurn) THEN "invalid state"
    ELSE ""

dealerHitRequire(g, sender) ==
    IF ~(g.exists /\ g.phase = DealerTurn) THEN "invalid state"
    ELSE IF ~(g.deckIndex < DECK_SIZE) THEN "deck empty"
    ELSE ""

\* variant: the drawn card always counts
dealerHit_always(s, sender, gameId) ==
    LET g == s.games[gameId]
        e == dealerHitRequire(g, sender)
    IN
    IF e # "" THEN Revert(s, e)
    ELSE
    LET continueFlag == Enc(Fresh(gameId, "continueFlag", g.continueFlag),
                            IF g.dealerSum.v < 17 THEN 1 ELSE 0)
        c == deckAt(gameId, g, g.deckIndex)
        r == addCardEnc(gameId, "dealerBaseSum", "dealerAceCount", "dealerSum",
                        g.dealerBaseSum, g.dealerAceCount, g.dealerSum, c)
    IN  Ok([s EXCEPT !.games[gameId] =
                        [g EXCEPT !.continueFlag = continueFlag,
                                  !.deckIndex = @ + 1,
                                  !.dealerBaseSum = r.base,
                                  !.dealerAceCount = r.aces,
                                  !.dealerSum = r.sum],
                     !.allowed = @ \cup {<<r.sum.h, g.player>>},
                     !.publicDecrypt = @ \cup {continueFlag.h, g.dealerSum.h, c.h}])

dealerHit(s, sender, gameId) ==
    LET g == s.games[gameId]
        e == dealerHitRequire(g, sender)
    IN
    IF e # "" THEN Revert(s, e)
    ELSE
    LET continueFlag == Enc(Fresh(gameId, "continueFlag", g.continueFlag),
                            IF g.dealerSum.v < 17 THEN 1 ELSE 0)
        c == deckAt(gameId, g, g.deckIndex)
        r == addCardEnc(gameId, "dealerBaseSum", "dealerAceCount", "dealerSum",
                        g.dealerBaseSum, g.dealerAceCount, g.dealerSum, c)
        shouldAddCard == g.dealerSum.v < 17
        \* FHE.select gives a new handle whichever operand it selects
        dealerBaseSum == Enc(r.base.h, IF shouldAddCard THEN r.base.v ELSE g.dealerBaseSum.v)
        dealerAceCount == Enc(r.aces.h, IF shouldAddCard THEN r.aces.v ELSE g.dealerAceCount.v)
        dealerSum == Enc(r.sum.h, IF shouldAddCard THEN r.sum.v ELSE g.dealerSum.v)
    IN  Ok([s EXCEPT !.games[gameId] =
                        [g EXCEPT !.continueFlag = continueFlag,
                                  !.deckIndex = @ + 1,
                                  !.dealerBaseSum = dealerBaseSum,
                                  !.dealerAceCount = dealerAceCount,
                                  !.dealerSum = dealerSum],
                     !.allowed = @ \cup {<<dealerSum.h, g.player>>},
                     !.publicDecrypt = @ \cup {continueFlag.h, g.dealerSum.h, c.h}])

setBustPhaseRequire(g, sender) ==
    IF ~(g.exists /\ g.player = sender) THEN "invalid player"
    ELSE IF ~(g.phase = PlayerTurn) THEN "wrong phase"
    ELSE ""

\* variant: the bust transition hands the turn to the dealer
setBustPhaseEffect_toDealerTurn(g) == [g EXCEPT !.phase = DealerTurn]

\* variant: declaring a bust clears the stored plain bet
setBustPhaseEffect_forfeit(g) == [g EXCEPT !.phase = GameEnding, !.plainBetAmount = 0]

setBustPhaseEffect(g) == [g EXCEPT !.phase = GameEnding]

setBustPhase(s, sender, gameId) ==
    LET g == s.games[gameId]
        e == setBustPhaseRequire(g, sender)
    IN  IF e # "" THEN Revert(s, e)
        ELSE Ok([s EXCEPT !.games[gameId] = setBustPhaseEffect(g)])

\* variant: endGame is accepted in GameEnding only
endGameRequire_endingOnly(g, sender) ==
    IF ~(g.exists /\ g.phase = GameEnding) THEN "invalid state"
    ELSE ""

endGameRequire(g, sender) ==
    IF ~(g.exists /\ (g.phase = GameEnding \/ g.phase = DealerTurn)) THEN "invalid state"
    ELSE ""

\* variant: a tie counts as a win
endGame_tieWins(s, sender, gameId) ==
    LET g == s.games[gameId]
        e == endGameRequire(g, sender)
    IN
    IF e # "" THEN Revert(s, e)
    ELSE
    LET winFlag == Enc(Fresh(gameId, "winFlag", g.winFlag),
                       IF (g.playerSum.v >= g.dealerSum.v) \/ (g.dealerSum.v > 21)
                       THEN 1 ELSE 0)
    IN  Ok([s EXCEPT !.games[gameId] = [g EXCEPT !.winFlag = winFlag,
                                                 !.phase = Completed],
                     !.allowed = @ \cup {<<g.dealerHoleCard.h, g.player>>},
                     !.publicDecrypt = @ \cup {g.playerCard1.h, g.playerCard2.h,
                                               g.dealerHoleCard.h, winFlag.h}])

endGame(s, sender, gameId) ==
    LET g == s.games[gameId]
        e == endGameRequire(g, sender)
    IN
    IF e # "" THEN Revert(s, e)
    ELSE
    LET winFlag == Enc(Fresh(gameId, "winFlag", g.winFlag),
                       IF (g.playerSum.v > g.dealerSum.v) \/ (g.dealerSum.v > 21)
                       THEN 1 ELSE 0)
    IN  Ok([s EXCEPT !.games[gameId] = [g EXCEPT !.winFlag = winFlag,
                                                 !.phase = Completed],
                     !.allowed = @ \cup {<<g.dealerHoleCard.h, g.player>>},
                     !.publicDecrypt = @ \cup {g.playerCard1.h, g.playerCard2.h,
                                               g.dealerHoleCard.h, winFlag.h}])

\* variant: any account may claim
payoutWinnerRequire_anyone(g, sender) ==
    IF ~g.exists THEN "no game"
    ELSE IF ~(g.phase = Completed) THEN "not finished"
    ELSE ""

payoutWinnerRequire(g, sender) ==
    IF ~g.exists THEN "no game"
    ELSE IF ~(g.phase = Completed) THEN "not finished"
    ELSE IF ~(g.player = sender) THEN "only player can claim"
    ELSE ""

\* variant: the reward is the bet, not twice the bet
payoutReward_once(g) == g.plainBetAmount

payoutReward(g) == g.plainBetAmount * 2

\* variant: any account may claim a finished hand and is credited itself
payoutWinner_bearer(s, sender, gameId, playerWon) ==
    LET g == s.games[gameId]
        e == payoutWinnerRequire_anyone(g, sender)
    IN  IF e # "" THEN Revert(s, e)
        ELSE IF playerWon
            THEN Ok([s EXCEPT !.chipBalances[sender] = @ + payoutReward(g)])
            ELSE Ok(s)

payoutWinner(s, sender, gameId, playerWon) ==
    LET g == s.games[gameId]
        e == payoutWinnerRequire(g, sender)
    IN  IF e # "" THEN Revert(s, e)
        ELSE IF playerWon
            THEN Ok([s EXCEPT !.chipBalances[g.player] = @ + payoutReward(g)])
            ELSE Ok(s)

----------------------------------------------------------------------------
(* The engine under calls by any account, in any order *)

State ==
    [games |-> games,
     nextGameId |-> nextGameId,
     chipBalances |-> chipBalances,
     ethBalance |-> ethBalance,
     allowed |-> allowed,
     publicDecrypt |-> publicDecrypt]

\* the transaction's outcome r becomes the state; a reverted one leaves it as it was
Apply(r) ==
    /\ games' = r.s.games
    /\ nextGameId' = r.s.nextGameId
    /\ chipBalances' = r.s.chipBalances
    /\ ethBalance' = r.s.ethBalance
    /\ allowed' = r.s.allowed
    /\ publicDecrypt' = r.s.publicDecrypt
    /\ UNCHANGED <<runA, runB, hand, app>>

\* a 52-card deck: the given first cards, then the codes 1..13 in turn
DeckFrom(first) ==
    [i \in 0..(DECK_SIZE - 1) |-> IF i < Len(first) THEN first[i + 1] ELSE (i % 13) + 1]

\* Inputs.  p1 is the account that buys chips; p2 sends no ETH and stands for
\* every account that holds no chips.  msg.value is 0, too small for one chip,
\* or the price of two chips.
Depositors == {"p1"}
BuyValues == {0, 5, 20}
TableDecks == {DeckFrom(<<10, 9, 10, 7, 5, 2, 3>>)}
PlainBets == {0, 1, 2}
EncryptedBets == {2}

WithinDraws(r, id, limit) == r.err = "" => r.s.games[id].deckIndex <= FIRST_DRAW + limit
WithinBalance(r) == \A a \in Players : r.s.chipBalances[a] <= MaxBalance

BuyChips ==
    \E a \in Depositors, value \in BuyValues :
        LET r == buyChips(State, a, value) IN WithinBalance(r) /\ Apply(r)

SellChips ==
    \E a \in Players, chipAmount \in 0..MaxBalance, transferOk \in BOOLEAN :
        Apply(sellChips(State, a, chipAmount, transferOk))

StartGame ==
    /\ nextGameId <= MaxGames
    /\ \E a \in Players, encDeck \in TableDecks, encryptedBet \in EncryptedBets,
          plainBet \in PlainBets :
            Apply(startGame(State, a, encDeck, encryptedBet, plainBet))

Hit ==
    \E a \in Players, id \in GameIds :
        LET r == hit(State, a, id) IN WithinDraws(r, id, MaxDraws) /\ Apply(r)

Stand ==
    \E a \in Players, id \in GameIds : Apply(stand(State, a, id))

DealerHit ==
    \E a \in Players, id \in GameIds :
        LET r == dealerHit(State, a, id) IN WithinDraws(r, id, MaxDraws) /\ Apply(r)

SetBustPhase ==
    \E a \in Players, id \in GameIds : Apply(setBustPhase(State, a, id))

EndGame ==
    \E a \in Players, id \in GameIds : Apply(endGame(State, a, id))

PayoutWinner ==
    \E a \in Players, id \in GameIds, playerWon \in BOOLEAN :
        LET r == payoutWinner(State, a, id, playerWon) IN WithinBalance(r) /\ Apply(r)

NoCards == [cards |-> <<>>, newBaseSum |-> 0, newAceCount |-> 0, finalSum |-> 0]

\* the dealer loop before handleDealerTurn is called
DealerIdle == [pc |-> "idle", maxIterations |-> 0, dealerHits |-> 0, endGames |-> 0]

\* the slots for handler invocations, and a slot not yet used
Calls == 1..MaxCalls
NoCall == [handler |-> "none", pc |-> "none", locked |-> FALSE, sent |-> FALSE]

\* the App component after mounting: no action in progress
Mounted ==
    [actionInProgress |-> FALSE,
     calls |-> [k \in Calls |-> NoCall],
     dealer |-> DealerIdle]

Init ==
    /\ games = Deployed.games
    /\ nextGameId = Deployed.nextGameId
    /\ chipBalances = Deployed.chipBalances
    /\ ethBalance = Deployed.ethBalance
    /\ allowed = Deployed.allowed
    /\ publicDecrypt = Deployed.publicDecrypt
    /\ runA = Deployed
    /\ runB = Deployed
    /\ hand = NoCards
    /\ app = Mounted

Next ==
    \/ BuyChips
    \/ SellChips
    \/ StartGame
    \/ Hit
    \/ Stand
    \/ DealerHit
    \/ SetBustPhase
    \/ EndGame
    \/ PayoutWinner

Spec == Init /\ [][Next]_vars

----------------------------------------------------------------------------
(* The arithmetic module alone: cards 1..13 fed one by one through          *)
(* addCardToSum, starting from base sum 0 and ace count 0.                  *)

CardCodes == 1..13

AddCard ==
    /\ Len(hand.cards) < MaxCards
    /\ \E card \in CardCodes :
        LET r == addCardToSum(hand.newBaseSum, hand.newAceCount, card)
        IN  hand' = [cards |-> Append(hand.cards, card),
                     newBaseSum |-> r.newBaseSum,
                     newAceCount |-> r.newAceCount,
                     finalSum |-> r.finalSum]
    /\ UNCHANGED <<games, nextGameId, chipBalances, ethBalance, allowed, publicDecrypt,
                   runA, runB, app>>

NextArith == AddCard

SpecArith == Init /\ [][NextArith]_vars

----------------------------------------------------------------------------
(* Two engines side by side.  Both receive the same calls with the same     *)
(* arguments, except that the deck given to run B has another card at       *)
(* index 3 (the dealer hole card).                                          *)

TwinDecks == {DeckFrom(<<10, 9, 10, 7, 5, 2, 3>>),
              DeckFrom(<<1, 13, 6, 10, 12, 4, 1>>)}
HoleCards == {1, 6, 13}
TwinBuyValues == {20}
TwinBets == {2}

ApplyTwin(rA, rB) ==
    /\ runA' = rA.s
    /\ runB' = rB.s
    /\ UNCHANGED <<games, nextGameId, chipBalances, ethBalance, allowed, publicDecrypt,
                   hand, app>>

TwinBuyChips ==
    \E a \in Depositors, value \in TwinBuyValues :
        LET rA == buyChips(runA, a, value)
            rB == buyChips(runB, a, value)
        IN  WithinBalance(rA) /\ ApplyTwin(rA, rB)

TwinStartGame ==
    /\ runA.nextGameId <= MaxGames
    /\ \E a \in Players, encDeck \in TwinDecks, hole \in HoleCards,
          encryptedBet \in EncryptedBets, plainBet \in TwinBets :
            ApplyTwin(startGame(runA, a, encDeck, encryptedBet, plainBet),
                      startGame(runB, a, [encDeck EXCEPT ![3] = hole],
                                encryptedBet, plainBet))

TwinHit ==
    \E a \in Players, id \in GameIds :
        LET rA == hit(runA, a, id)
            rB == hit(runB, a, id)
        IN  WithinDraws(rA, id, MaxTwinDraws) /\ ApplyTwin(rA, rB)

TwinStand ==
    \E a \in Players, id \in GameIds :
        ApplyTwin(stand(runA, a, id), stand(runB, a, id))

TwinSetBustPhase ==
    \E a \in Players, id \in GameIds :
        ApplyTwin(setBustPhase(runA, a, id), setBustPhase(runB, a, id))

TwinEndGame ==
    \E a \in Players, id \in GameIds :
        ApplyTwin(endGame(runA, a, id), endGame(runB, a, id))

NextTwin ==
    \/ TwinBuyChips
    \/ TwinStartGame
    \/ TwinHit
    \/ TwinStand
    \/ TwinSetBustPhase
    \/ TwinEndGame

SpecTwin == Init /\ [][NextTwin]_vars

----------------------------------------------------------------------------
(* One hand played through the whole deck: hit and dealerHit are called as  *)
(* often as the contract accepts them, by either account, until deckIndex   *)
(* reaches the end of the deck.                                             *)

\* the codes 1..13 in turn; an Ace as the dealer's up card and a ten in the
\* hole; the player and the dealer both dealt ten and seven
DeckDecks == {DeckFrom(<<>>),
              DeckFrom(<<10, 9, 1, 10, 5, 6>>),
              DeckFrom(<<10, 7, 10, 7, 13, 12>>)}
DeckBuyValues == {20}
DeckBets == {2}

DeckBuyChips ==
    \E a \in Depositors, value \in DeckBuyValues :
        chipBalances[a] = 0 /\ Apply(buyChips(State, a, value))

DeckStartGame ==
    /\ nextGameId = 1
    /\ \E a \in Players, encDeck \in DeckDecks, encryptedBet \in EncryptedBets,
          plainBet \in DeckBets :
            Apply(startGame(State, a, encDeck, encryptedBet, plainBet))

DeckHit == \E a \in Players, id \in GameIds : Apply(hit(State, a, id))

DeckStand == \E a \in Players, id \in GameIds : Apply(stand(State, a, id))

DeckDealerHit == \E a \in Players, id \in GameIds : Apply(dealerHit(State, a, id))

DeckSetBustPhase == \E a \in Players, id \in GameIds : Apply(setBustPhase(State, a, id))

DeckEndGame == \E a \in Players, id \in GameIds : Apply(endGame(State, a, id))

NextDeck ==
    \/ DeckBuyChips
    \/ DeckStartGame
    \/ DeckHit
    \/ DeckStand
    \/ DeckDealerHit
    \/ DeckSetBustPhase
    \/ DeckEndGame

SpecDeck == Init /\ [][NextDeck]_vars

\* One hand on one deck when the calls that move a hand to its next phase
\* are not withheld for ever: a stand, setBustPhase or endGame that stays
\* possible is eventually sent.
ProgressDecks == {DeckFrom(<<>>)}

ProgressStartGame ==
    /\ nextGameId = 1
    /\ \E a \in Players, encDeck \in ProgressDecks, encryptedBet \in EncryptedBets,
          plainBet \in DeckBets :
            Apply(startGame(State, a, encDeck, encryptedBet, plainBet))

NextProgress ==
    \/ DeckBuyChips
    \/ ProgressStartGame
    \/ DeckHit
    \/ DeckStand
    \/ DeckDealerHit
    \/ DeckSetBustPhase
    \/ DeckEndGame

SpecProgress ==
    /\ Init /\ [][NextProgress]_vars
    /\ WF_vars(DeckStand)
    /\ WF_vars(DeckSetBustPhase)
    /\ WF_vars(DeckEndGame)

----------------------------------------------------------------------------
(* One hand on decks of unvalidated 8-bit codes: the largest code at every  *)
(* position, the Ace at every position, the code 0 at every position, and a *)
(* deck that mixes them with ordinary cards.                                *)

MAX_CODE == 255

WideDecks == {[i \in 0..(DECK_SIZE - 1) |-> MAX_CODE],
              [i \in 0..(DECK_SIZE - 1) |-> 1],
              [i \in 0..(DECK_SIZE - 1) |-> 0],
              DeckFrom(<<MAX_CODE, 1, 0, 1, 14, 1, 200>>)}

WideStartGame ==
    /\ nextGameId = 1
    /\ \E a \in Players, encDeck \in WideDecks, encryptedBet \in EncryptedBets,
          plainBet \in DeckBets :
            Apply(startGame(State, a, encDeck, encryptedBet, plainBet))

NextWide ==
    \/ DeckBuyChips
    \/ WideStartGame
    \/ DeckHit
    \/ DeckStand
    \/ DeckDealerHit
    \/ DeckSetBustPhase
    \/ DeckEndGame

SpecWide == Init /\ [][NextWide]_vars

----------------------------------------------------------------------------
(* Two engines side by side that receive the same calls, except that the    *)
(* hand of run A is started with wager wA and the hand of run B with wager  *)
(* wB, each passed as the front end passes it: encrypted and in the clear.  *)

Wagers == {1, 2}
WagerBuyValues == {20}
WagerDeck == DeckFrom(<<10, 9, 10, 7, 5, 2, 3>>)

WagerBuyChips ==
    \E a \in Depositors, value \in WagerBuyValues :
        LET rA == buyChips(runA, a, value)
            rB == buyChips(runB, a, value)
        IN  WithinBalance(rA) /\ WithinBalance(rB) /\ ApplyTwin(rA, rB)

WagerStartGame ==
    /\ runA.nextGameId <= MaxGames
    /\ \E a \in Players, wA \in Wagers, wB \in Wagers :
           LET rA == startGame(runA, a, WagerDeck, wA, wA)
               rB == startGame(runB, a, WagerDeck, wB, wB)
           IN  (rA.err = "" <=> rB.err = "") /\ ApplyTwin(rA, rB)

WagerHit ==
    \E a \in Players, id \in GameIds :
        LET rA == hit(runA, a, id)
            rB == hit(runB, a, id)
        IN  WithinDraws(rA, id, MaxTwinDraws) /\ ApplyTwin(rA, rB)

WagerStand ==
    \E a \in Players, id \in GameIds :
        ApplyTwin(stand(runA, a, id), stand(runB, a, id))

WagerDealerHit ==
    \E a \in Players, id \in GameIds :
        LET rA == dealerHit(runA, a, id)
            rB == dealerHit(runB, a, id)
        IN  WithinDraws(rA, id, MaxTwinDraws) /\ ApplyTwin(rA, rB)

WagerSetBustPhase ==
    \E a \in Players, id \in GameIds :
        ApplyTwin(setBustPhase(runA, a, id), setBustPhase(runB, a, id))

WagerEndGame ==
    \E a \in Players, id \in GameIds :
        ApplyTwin(endGame(runA, a, id), endGame(runB, a, id))

WagerPayoutWinner ==
    \E a \in Players, id \in GameIds, playerWon \in BOOLEAN :
        LET rA == payoutWinner(runA, a, id, playerWon)
            rB == payoutWinner(runB, a, id, playerWon)
        IN  WithinBalance(rA) /\ WithinBalance(rB) /\ ApplyTwin(rA, rB)

NextWager ==
    \/ WagerBuyChips
    \/ WagerStartGame
    \/ WagerHit
    \/ WagerStand
    \/ WagerDealerHit
    \/ WagerSetBustPhase
    \/ WagerEndGame
    \/ WagerPayoutWinner

SpecWager == Init /\ [][NextWager]_vars

----------------------------------------------------------------------------
(* Several hands at once.  Both accounts buy chips and either may start a   *)
(* hand; hands are played by their owners up to the dealer's turn and ended *)
(* by either account.                                                       *)

MaxHands == 2        \* hands created in one behaviour of this specification
HandsBuyValues == {20}
HandsBets == {2}
HandsDecks == {DeckFrom(<<10, 9, 10, 7, 5, 2, 3>>)}

HandsBuyChips ==
    \E a \in Players, value \in HandsBuyValues :
        chipBalances[a] = 0 /\ Apply(buyChips(State, a, value))

HandsStartGame ==
    /\ nextGameId <= MaxHands
    /\ \E a \in Players, encDeck \in HandsDecks, encryptedBet \in EncryptedBets,
          plainBet \in HandsBets :
            Apply(startGame(State, a, encDeck, encryptedBet, plainBet))

HandsHit ==
    \E id \in GameIds :
        LET r == hit(State, games[id].player, id) IN WithinDraws(r, id, 1) /\ Apply(r)

HandsStand == \E id \in GameIds : Apply(stand(State, games[id].player, id))

HandsSetBustPhase == \E id \in GameIds : Apply(setBustPhase(State, games[id].player, id))

HandsEndGame == \E a \in Players, id \in GameIds : Apply(endGame(State, a, id))

HandsPayoutWinner ==
    \E id \in GameIds :
        LET r == payoutWinner(State, games[id].player, id, TRUE)
        IN  WithinBalance(r) /\ Apply(r)

NextHands ==
    \/ HandsBuyChips
    \/ HandsStartGame
    \/ HandsHit
    \/ HandsStand
    \/ HandsSetBustPhase
    \/ HandsEndGame
    \/ HandsPayoutWinner

SpecHands == Init /\ [][NextHands]_vars

----------------------------------------------------------------------------
(* The front end's dealer loop (handleDealerTurn in App.tsx).  Every await  *)
(* is one step whose outcome, a value or an exception, is any the gateway,  *)
(* the relayer or the chain can give.  refreshGameState catches its own     *)
(* errors and never throws.                                                 *)

MAX_ITERATIONS == 10

NoValue == -1
PhaseNums == {0, 1, 3}               \* phase read from getGameState
DealerSums == {NoValue, 16, 17, 22}  \* decrypted dealerSum; NoValue: no handle,
                                     \* or its decryption failed
ContinueFlags == {NoValue, 0, 1}     \* decrypted continueFlag, likewise
\* how the checks were made: one batch decryption, one decryption per handle
\* after the batch failed, or the fallback after getContinueFlag threw
DecryptPaths == {"batch", "individual", "fallback"}

\* variant: the loop condition does not count down
whileCondition_noCount(d) ==
    [enter |-> d.maxIterations > 0, d |-> d]

\* while (maxIterations-- > 0)
whileCondition(d) ==
    [enter |-> d.maxIterations > 0, d |-> [d EXCEPT !.maxIterations = @ - 1]]

\* the checks before dealerHit: TRUE when they break out of the loop
preHitBreaks(phaseNum, path, sum, flag) ==
    IF phaseNum # 1 THEN TRUE
    ELSE IF path = "fallback" THEN sum # NoValue /\ (sum > 21 \/ sum >= 17)
    ELSE IF sum # NoValue /\ sum > 21 THEN TRUE
    ELSE flag # NoValue /\ flag = 0

\* the checks after dealerHit: TRUE when they break out of the loop
postHitBreaks(path, sum, flag) ==
    IF path = "fallback" THEN sum # NoValue /\ (sum > 21 \/ sum >= 17)
    ELSE IF sum # NoValue /\ sum > 21 THEN TRUE
    ELSE flag # NoValue /\ flag = 0

SetDealer(d) ==
    /\ app' = [app EXCEPT !.dealer = d]
    /\ UNCHANGED <<games, nextGameId, chipBalances, ethBalance, allowed, publicDecrypt,
                   runA, runB, hand>>

\* handleDealerTurn is called for a current game
HandleDealerTurn ==
    /\ app.dealer.pc = "idle"
    /\ SetDealer([DealerIdle EXCEPT !.pc = "waitForGateway"])

\* the first waitForGateway: the handler goes on when it returned true and
\* throws when it returned false or threw; then the loop counter is set
InitialWait ==
    /\ app.dealer.pc = "waitForGateway"
    /\ \E gatewayReady \in {"true", "false", "throws"} :
           IF gatewayReady = "true"
           THEN SetDealer([app.dealer EXCEPT !.pc = "while",
                                             !.maxIterations = MAX_ITERATIONS])
           ELSE SetDealer([app.dealer EXCEPT !.pc = "thrown"])

WhileCondition ==
    /\ app.dealer.pc = "while"
    /\ LET w == whileCondition(app.dealer)
       IN  SetDealer([w.d EXCEPT !.pc = IF w.enter THEN "preHit" ELSE "endGame"])

\* getGameState and the checks before the hit; an exception of getGameState
\* is caught by the iteration's catch and the loop goes on
PreHit ==
    /\ app.dealer.pc = "preHit"
    /\ \E stateThrows \in BOOLEAN, phaseNum \in PhaseNums, path \in DecryptPaths,
          sum \in DealerSums, flag \in ContinueFlags :
           SetDealer([app.dealer EXCEPT !.pc =
               IF stateThrows THEN "while"
               ELSE IF preHitBreaks(phaseNum, path, sum, flag) THEN "endGame"
               ELSE "dealerHit"])

\* await dealerHit(currentGameId): one transaction; an exception is caught by
\* the iteration's catch
DealerHitTx ==
    /\ app.dealer.pc = "dealerHit"
    /\ \E throws \in BOOLEAN :
           SetDealer([app.dealer EXCEPT !.dealerHits = @ + 1,
                                        !.pc = IF throws THEN "while" ELSE "waitAfterHit"])

\* await waitForGateway() after the hit: its result is not read; an exception
\* is caught by the iteration's catch
WaitAfterHit ==
    /\ app.dealer.pc = "waitAfterHit"
    /\ \E throws \in BOOLEAN :
           SetDealer([app.dealer EXCEPT !.pc = IF throws THEN "while" ELSE "postHit"])

\* getGameState and the checks after the hit
PostHit ==
    /\ app.dealer.pc = "postHit"
    /\ \E stateThrows \in BOOLEAN, path \in DecryptPaths,
          sum \in DealerSums, flag \in ContinueFlags :
           SetDealer([app.dealer EXCEPT !.pc =
               IF stateThrows THEN "while"
               ELSE IF postHitBreaks(path, sum, flag) THEN "endGame"
               ELSE "while"])

\* await endGame(currentGameId) and handleEndGameLogic(), both in one try
\* whose catch only logs
EndGameCall ==
    /\ app.dealer.pc = "endGame"
    /\ SetDealer([app.dealer EXCEPT !.endGames = @ + 1, !.pc = "returned"])

NextDealerTurn ==
    \/ HandleDealerTurn
    \/ InitialWait
    \/ WhileCondition
    \/ PreHit
    \/ DealerHitTx
    \/ WaitAfterHit
    \/ PostHit
    \/ EndGameCall

\* every awaited call settles, with a value or with an exception
SpecDealerTurn == Init /\ [][NextDealerTurn]_vars /\ WF_vars(NextDealerTurn)

----------------------------------------------------------------------------
(* The front end's action lock (actionInProgress in App.tsx) under clicks   *)
(* on Deal Cards, Hit and Stand.  A handler invocation is a sequence of     *)
(* steps separated by its awaits; other invocations may run in between.  A  *)
(* handler reads the lock as it is when it is invoked.                      *)

SetCall(k, call, lock) ==
    /\ app' = [app EXCEPT !.calls[k] = call, !.actionInProgress = lock]
    /\ UNCHANGED <<games, nextGameId, chipBalances, ethBalance, allowed, publicDecrypt,
                   runA, runB, hand>>

Entered(handler, pc, locked) ==
    [handler |-> handler, pc |-> pc, locked |-> locked, sent |-> FALSE]

\* handleStartGame is invoked: it sets the lock without reading it
HandleStartGame ==
    \E k \in Calls :
        /\ app.calls[k] = NoCall
        /\ SetCall(k, Entered("handleStartGame", "validate", TRUE), TRUE)

\* the validation returns of handleStartGame: no account, bad bet, too few
\* chips, too little ETH for gas; each calls setIsStartingGame(false) and
\* returns
startValidation(lock, check) ==
    IF check = "ok" THEN [pc |-> "try", lock |-> lock]
    ELSE [pc |-> "returned", lock |-> lock]

StartValidate ==
    \E k \in Calls, check \in {"noAccount", "badBet", "lowChips", "lowEth", "ok"} :
        /\ app.calls[k].handler = "handleStartGame" /\ app.calls[k].pc = "validate"
        /\ LET v == startValidation(app.actionInProgress, check)
           IN  SetCall(k, [app.calls[k] EXCEPT !.pc = v.pc], v.lock)

\* the try block of handleStartGame up to the startGame transaction
StartSend ==
    \E k \in Calls :
        /\ app.calls[k].handler = "handleStartGame" /\ app.calls[k].pc = "try"
        /\ SetCall(k, [app.calls[k] EXCEPT !.pc = "finally", !.sent = TRUE],
                   app.actionInProgress)

\* an exception before the transaction is sent
StartThrows ==
    \E k \in Calls :
        /\ app.calls[k].handler = "handleStartGame" /\ app.calls[k].pc = "try"
        /\ SetCall(k, [app.calls[k] EXCEPT !.pc = "finally"], app.actionInProgress)

\* handleHit is invoked: it returns at once without a current game or account
\* or when the lock is set, and sets the lock otherwise
HandleHit ==
    \E k \in Calls, hasGame \in BOOLEAN :
        /\ app.calls[k] = NoCall
        /\ IF ~hasGame \/ app.actionInProgress
           THEN SetCall(k, Entered("handleHit", "returned", FALSE), app.actionInProgress)
           ELSE SetCall(k, Entered("handleHit", "validate", TRUE), TRUE)

\* the validation returns of handleHit: wrong phase, not the owner; each
\* releases the lock
HitValidate ==
    \E k \in Calls, check \in {"wrongPhase", "notOwner", "ok"} :
        /\ app.calls[k].handler = "handleHit" /\ app.calls[k].pc = "validate"
        /\ IF check = "ok"
           THEN SetCall(k, [app.calls[k] EXCEPT !.pc = "try"], app.actionInProgress)
           ELSE SetCall(k, [app.calls[k] EXCEPT !.pc = "returned"], FALSE)

\* the hit transaction
HitSend ==
    \E k \in Calls :
        /\ app.calls[k].handler = "handleHit" /\ app.calls[k].pc = "try"
        /\ SetCall(k, [app.calls[k] EXCEPT !.pc = "finally", !.sent = TRUE],
                   app.actionInProgress)

\* an exception before the transaction is sent
HitThrows ==
    \E k \in Calls :
        /\ app.calls[k].handler = "handleHit" /\ app.calls[k].pc = "try"
        /\ SetCall(k, [app.calls[k] EXCEPT !.pc = "finally"], app.actionInProgress)

\* handleStand is invoked
HandleStand ==
    \E k \in Calls, hasGame \in BOOLEAN :
        /\ app.calls[k] = NoCall
        /\ IF ~hasGame \/ app.actionInProgress
           THEN SetCall(k, Entered("handleStand", "returned", FALSE), app.actionInProgress)
           ELSE SetCall(k, Entered("handleStand", "try", TRUE), TRUE)

\* the stand transaction, followed by the dealer turn
StandSend ==
    \E k \in Calls :
        /\ app.calls[k].handler = "handleStand" /\ app.calls[k].pc = "try"
        /\ SetCall(k, [app.calls[k] EXCEPT !.pc = "finally", !.sent = TRUE],
                   app.actionInProgress)

\* an exception before the transaction is sent
StandThrows ==
    \E k \in Calls :
        /\ app.calls[k].handler = "handleStand" /\ app.calls[k].pc = "try"
        /\ SetCall(k, [app.calls[k] EXCEPT !.pc = "finally"], app.actionInProgress)

\* the finally block of any of the three handlers, after success or after the
\* catch: it releases the lock
Finally ==
    \E k \in Calls :
        /\ app.calls[k].pc = "finally"
        /\ SetCall(k, [app.calls[k] EXCEPT !.pc = "returned"], FALSE)

NextApp ==
    \/ HandleStartGame
    \/ StartValidate
    \/ StartSend
    \/ StartThrows
    \/ HandleHit
    \/ HitValidate
    \/ HitSend
    \/ HitThrows
    \/ HandleStand
    \/ StandSend
    \/ StandThrows
    \/ Finally

SpecApp == Init /\ [][NextApp]_vars

----------------------------------------------------------------------------
(* Properties *)

Rank(phase) ==
    CASE phase = PlayerTurn -> 0
      [] phase = DealerTurn -> 1
      [] phase = GameEnding -> 2
      [] phase = Completed -> 3

ByStand(id) == \E a \in Players : stand(State, a, id).err = "" /\ State' = stand(State, a, id).s
BySetBust(id) ==
    \E a \in Players : setBustPhase(State, a, id).err = "" /\ State' = setBustPhase(State, a, id).s
ByEndGame(id) ==
    \E a \in Players : endGame(State, a, id).err = "" /\ State' = endGame(State, a, id).s

PhaseStep(id) ==
    games'[id].phase # games[id].phase =>
        /\ Rank(games'[id].phase) > Rank(games[id].phase)
        /\ \/ games[id].phase = PlayerTurn /\ games'[id].phase = DealerTurn /\ ByStand(id)
           \/ games[id].phase = PlayerTurn /\ games'[id].phase = GameEnding /\ BySetBust(id)
           \/ games[id].phase = DealerTurn /\ games'[id].phase = Completed /\ ByEndGame(id)
           \/ games[id].phase = GameEnding /\ games'[id].phase = Completed /\ ByEndGame(id)

\* C1: the phase of a hand changes only along PlayerTurn -> DealerTurn (a
\* stand), PlayerTurn -> GameEnding (a setBustPhase), DealerTurn -> Completed
\* and GameEnding -> Completed (an endGame); every change moves the hand to a
\* later phase, so no hand returns to a phase it has left.
C1_PhaseEdges == [][\A id \in GameIds : PhaseStep(id)]_vars

\* a hand that went PlayerTurn -> DealerTurn -> Completed: stand made its
\* continue flag, endGame its win flag
C1_Witness ==
    \E id \in GameIds :
        /\ games[id].phase = Completed
        /\ games[id].continueFlag.h = Handle(id, "continueFlag", 0)
        /\ games[id].winFlag.h = Handle(id, "winFlag", 0)

CompletedRejects(id) ==
    \A a \in Players :
        /\ hit(State, a, id).err # ""
        /\ stand(State, a, id).err # ""
        /\ dealerHit(State, a, id).err # ""
        /\ setBustPhase(State, a, id).err # ""
        /\ endGame(State, a, id).err # ""
        /\ \A playerWon \in BOOLEAN :
               payoutWinner(State, a, id, playerWon).s
                   = [State EXCEPT !.chipBalances = payoutWinner(State, a, id, playerWon).s.chipBalances]

IsCompleted(id) == games[id].exists /\ games[id].phase = Completed

\* C2: on a Completed hand every hit, stand, dealerHit, setBustPhase and
\* endGame reverts, payoutWinner changes nothing but chip balances, and from
\* then on no step changes any field of the hand's record.
C2_CompletedIsFinal ==
    /\ [](\A id \in GameIds : IsCompleted(id) => CompletedRejects(id))
    /\ [][\A id \in GameIds : IsCompleted(id) => games'[id] = games[id]]_vars

\* a Completed hand whose owner has been paid: the chips in circulation
\* exceed what the ETH paid in bought
C2_Witness ==
    \E id \in GameIds :
        /\ IsCompleted(id)
        /\ chipBalances[games[id].player] * ETHER > ethBalance * CHIP_PER_ETH

MayDecrypt(s, h) == h \in s.publicDecrypt \/ \E a \in Players : <<h, a>> \in s.allowed

\* C3: while a hand is in PlayerTurn its dealer hole card, deck[3], is
\* decryptable by nobody: not public and granted to no account; deckIndex is
\* at least 4 and the only deck card a hit grants is deck[deckIndex].
C3_HoleCardHidden ==
    \A id \in GameIds :
        games[id].exists /\ games[id].phase = PlayerTurn =>
            /\ games[id].dealerHoleCard.h = DeckHandle(id, 3)
            /\ ~MayDecrypt(State, DeckHandle(id, 3))
            /\ games[id].deckIndex >= FIRST_DRAW
            /\ \A a \in Players :
                   LET r == hit(State, a, id) IN
                   \A x \in r.s.allowed \ allowed :
                       x[1].f = "deck" => x[1].n = games[id].deckIndex /\ x[1].n >= FIRST_DRAW

\* a hand still in PlayerTurn after a hit that granted deck[4] to its owner
C3_Witness ==
    \E id \in GameIds :
        /\ games[id].exists /\ games[id].phase = PlayerTurn
        /\ games[id].deckIndex = FIRST_DRAW + 1
        /\ <<DeckHandle(id, FIRST_DRAW), games[id].player>> \in allowed

\* what an observer holding only the grants of state s learns of e: its
\* handle, and its plaintext when some account or the public may decrypt it
\* (-1: nothing)
Seen(s, e) == <<e.h, IF MayDecrypt(s, e.h) THEN e.v ELSE -1>>

EncryptedFields ==
    {"betAmount", "playerCard1", "playerCard2", "dealerCardUp", "dealerHoleCard",
     "playerSum", "dealerSum", "playerBaseSum", "dealerBaseSum", "playerAceCount",
     "dealerAceCount", "bustFlag", "winFlag", "continueFlag"}

\* everything the owner and the public can read of hand id in state s
HandView(s, id) ==
    LET g == s.games[id] IN
    [player |-> g.player,
     plainBetAmount |-> g.plainBetAmount,
     deckIndex |-> g.deckIndex,
     phase |-> g.phase,
     exists |-> g.exists,
     fields |-> [f \in EncryptedFields |-> Seen(s, g[f])],
     deck |-> [i \in 0..(DECK_SIZE - 1) |-> Seen(s, deckAt(id, g, i))]]

LedgerView(s) == <<s.nextGameId, s.chipBalances, s.ethBalance, s.allowed, s.publicDecrypt>>

\* C4: two runs given the same calls on decks that differ at index 3 only
\* agree, while the hand is in PlayerTurn, on every plain field, on the
\* ledger, on the access control list, and on the plaintext of every value
\* that the owner or the public may decrypt.
C4_HoleCardNoninterference ==
    /\ LedgerView(runA) = LedgerView(runB)
    /\ \A id \in GameIds :
           runA.games[id].exists /\ runA.games[id].phase = PlayerTurn =>
               HandView(runA, id) = HandView(runB, id)

\* both runs in PlayerTurn after a hit, with different hole cards
C4_Witness ==
    \E id \in GameIds :
        /\ runA.games[id].exists /\ runA.games[id].phase = PlayerTurn
        /\ runA.games[id].deckIndex > FIRST_DRAW
        /\ runA.games[id].deck[3] # runB.games[id].deck[3]
        /\ MayDecrypt(runA, runA.games[id].dealerSum.h)

CardValues(card) == IF card = 1 THEN {1, 11} ELSE IF card >= 11 THEN {10} ELSE {card}

\* every total of the cards, each Ace counted as 1 or as 11
RECURSIVE Totals(_)
Totals(cards) ==
    IF cards = <<>> THEN {0}
    ELSE {t + v : t \in Totals(Tail(cards)), v \in CardValues(Head(cards))}

\* the Blackjack score: the largest total not above 21, or the smallest total
\* (every Ace counted as 1) when every total is above 21
BlackjackScore(cards) ==
    LET all == Totals(cards)
        good == {t \in all : t <= 21}
    IN  IF good # {} THEN CHOOSE t \in good : \A u \in good : u <= t
        ELSE CHOOSE t \in all : \A u \in all : t <= u

\* C5: after any cards 1..13 fed one by one through addCardToSum from base
\* sum 0 and ace count 0, finalSum is the Blackjack score of the cards; two
\* Aces give 12 and a King then an Ace give 21.
C5_AddCardIsBlackjackScore ==
    /\ hand.finalSum = BlackjackScore(hand.cards)
    /\ hand.cards = <<1, 1>> => hand.finalSum = 12
    /\ hand.cards = <<13, 1>> => hand.finalSum = 21

\* three Aces and an eight: one Ace counts 11, the total is 21
C5_Witness == hand.cards = <<1, 1, 1, 8>> /\ hand.finalSum = 21

\* the step creates hand id
Creates(id) == ~games[id].exists /\ games'[id].exists

\* the round of the example: 0.1 ETH buys 1000 chips, the bet is 100
ExampleFunded == buyChips(Deployed, "p1", 10000).s
ExampleStarted == startGame(ExampleFunded, "p1", DeckFrom(<<>>), 100, 100).s
ExampleDone == endGame(stand(ExampleStarted, "p1", 1).s, "p1", 1).s

\* C6: the step that creates a hand takes exactly plainBetAmount from its
\* owner's chip balance and touches no other balance; on a Completed hand
\* the owner's payoutWinner(id, true) succeeds and adds exactly twice
\* plainBetAmount, payoutWinner(id, false) succeeds and leaves every balance
\* as it is (1000 chips, bet 100: 900, then 1100 or 900).
C6_LedgerAmounts ==
    /\ [][\A id \in GameIds : Creates(id) =>
              chipBalances' = [chipBalances EXCEPT ![games'[id].player] =
                                                    @ - games'[id].plainBetAmount]]_vars
    /\ [](\A id \in GameIds : IsCompleted(id) =>
              LET o == games[id].player
                  won == payoutWinner(State, o, id, TRUE)
                  lost == payoutWinner(State, o, id, FALSE)
              IN  /\ won.err = "" /\ lost.err = ""
                  /\ won.s.chipBalances =
                         [chipBalances EXCEPT ![o] = @ + 2 * games[id].plainBetAmount]
                  /\ lost.s.chipBalances = chipBalances)
    /\ [](/\ ExampleFunded.chipBalances["p1"] = 1000
          /\ ExampleStarted.chipBalances["p1"] = 900
          /\ ExampleStarted.games[1].exists
          /\ payoutWinner(ExampleDone, "p1", 1, TRUE).s.chipBalances["p1"] = 1100
          /\ payoutWinner(ExampleDone, "p1", 1, FALSE).s.chipBalances["p1"] = 900)

\* a Completed hand with bet 2 whose owner holds the 4 chips of a winning claim
C6_Witness ==
    \E id \in GameIds :
        /\ IsCompleted(id)
        /\ games[id].plainBetAmount = 2
        /\ ethBalance * CHIP_PER_ETH = 2 * ETHER
        /\ chipBalances[games[id].player] = 4

\* C7: every chip balance is a natural number, and the two operations that
\* take chips from a balance, startGame (plainBet) and sellChips
\* (chipAmount), pass their requires only when the caller's balance is at
\* least the amount taken.
C7_BalanceNeverNegative ==
    \A a \in Players :
        /\ chipBalances[a] \in Nat
        /\ \A plainBet \in 0..(MaxBalance + 1) :
               startGameRequire(State, a, plainBet) = "" => chipBalances[a] >= plainBet
        /\ \A chipAmount \in 0..(MaxBalance + 1), transferOk \in BOOLEAN :
               /\ sellChipsRequire(State, a, chipAmount, transferOk) = ""
                      => chipBalances[a] >= chipAmount
               /\ sellChips(State, a, chipAmount, transferOk).s.chipBalances[a] \in Nat

\* a started hand whose bet took the owner's last chips
C7_Witness ==
    \E id \in GameIds :
        /\ games[id].exists
        /\ games[id].plainBetAmount > 0
        /\ chipBalances[games[id].player] = 0
        /\ ethBalance > 0

\* C8: startGame with plainBet = 0 or with a chip balance below plainBet
\* reverts and leaves the state as it was: no hand, nextGameId and every
\* balance unchanged.
C8_StartRejected ==
    \A a \in Players, encDeck \in TableDecks, encryptedBet \in EncryptedBets,
       plainBet \in 0..(MaxBalance + 1) :
        plainBet = 0 \/ chipBalances[a] < plainBet =>
            LET r == startGame(State, a, encDeck, encryptedBet, plainBet) IN
            /\ r.err = (IF plainBet = 0 THEN "Bet required" ELSE "Insufficient CHIP balance")
            /\ r.s.games = games
            /\ r.s.nextGameId = nextGameId
            /\ r.s.chipBalances = chipBalances
            /\ r.s = State

\* no hand yet, p1 holds one chip and bets two
C8_Witness ==
    /\ nextGameId = 1
    /\ chipBalances["p1"] = 1
    /\ startGame(State, "p1", DeckFrom(<<>>), 2, 2).err = "Insufficient CHIP balance"

WrongPhase(id) == games[id].exists /\ games[id].phase # PlayerTurn

\* C9 as stated: every hit on a hand that is not in PlayerTurn leaves the
\* state unchanged and reports the phase mismatch.
C9_Original ==
    \A id \in GameIds, a \in Players :
        WrongPhase(id) =>
            /\ hit(State, a, id).s = State
            /\ hit(State, a, id).err = "wrong phase"

\* C9: every hit on a hand that is not in PlayerTurn reverts and leaves the
\* hand and the ledger unchanged; the reason is "wrong phase" when the caller
\* is the hand's owner and "invalid player" when it is any other account.
C9_HitWrongPhase ==
    \A id \in GameIds, a \in Players :
        WrongPhase(id) =>
            /\ hit(State, a, id).s = State
            /\ hit(State, a, id).err =
                   (IF a = games[id].player THEN "wrong phase" ELSE "invalid player")

\* a hand in DealerTurn that was hit once: both callers are turned away
C9_Witness ==
    \E id \in GameIds :
        /\ games[id].exists /\ games[id].phase = DealerTurn
        /\ games[id].deckIndex = FIRST_DRAW + 1
        /\ hit(State, games[id].player, id).err = "wrong phase"
        /\ \E a \in Players : hit(State, a, id).err = "invalid player"

\* C10: hit, stand, setBustPhase and payoutWinner called on a hand by an
\* account that is not its owner revert, in every phase, and leave the hand
\* and every chip balance as they were.
C10_OwnerOnly ==
    \A id \in GameIds, a \in Players :
        games[id].exists /\ a # games[id].player =>
            \A r \in {hit(State, a, id), stand(State, a, id), setBustPhase(State, a, id),
                      payoutWinner(State, a, id, TRUE), payoutWinner(State, a, id, FALSE)} :
                r.err # "" /\ r.s = State

\* a Completed hand: the other account's claim is turned away as not the owner's
C10_Witness ==
    \E id \in GameIds, a \in Players :
        /\ IsCompleted(id)
        /\ a # games[id].player
        /\ payoutWinner(State, a, id, TRUE).err = "only player can claim"
        /\ hit(State, a, id).err = "invalid player"

\* every call some account can make on hand id that is not a draw
OtherCalls(a, id) ==
    {stand(State, a, id), setBustPhase(State, a, id), endGame(State, a, id),
     payoutWinner(State, a, id, TRUE), payoutWinner(State, a, id, FALSE),
     buyChips(State, a, 20), sellChips(State, a, 1, TRUE), sellChips(State, a, 1, FALSE)}
    \cup (IF nextGameId \in GameIds
          THEN {startGame(State, a, DeckFrom(<<>>), 2, 2)} ELSE {})

\* the two drawing calls
DrawCalls(a, id) == {hit(State, a, id), dealerHit(State, a, id)}

ByDraw(id) == \E a \in Players : \E r \in DrawCalls(a, id) : r.err = "" /\ State' = r.s

\* C11: deckIndex is 4 in the step that creates the hand, and from then on
\* every step leaves it as it is or, when the step is a successful hit or
\* dealerHit, adds exactly 1; every successful hit and dealerHit adds exactly
\* 1, both are rejected once deckIndex is 52, every other call and every
\* rejected call leaves it unchanged; so 4 <= deckIndex <= 52 always.
C11_DeckIndex ==
    /\ [](\A id \in GameIds : games[id].exists =>
              /\ FIRST_DRAW <= games[id].deckIndex /\ games[id].deckIndex <= DECK_SIZE
              /\ \A a \in Players :
                     /\ games[id].deckIndex = DECK_SIZE =>
                            /\ hitRequire(games[id], a) # ""
                            /\ dealerHitRequire(games[id], a) # ""
                     /\ \A r \in DrawCalls(a, id) :
                            IF r.err = ""
                            THEN r.s.games[id].deckIndex = games[id].deckIndex + 1
                            ELSE r.s = State
                     /\ \A r \in OtherCalls(a, id) :
                            /\ r.s.games[id].deckIndex = games[id].deckIndex
                            /\ r.err # "" => r.s = State)
    /\ [][\A id \in GameIds :
              /\ Creates(id) => games'[id].deckIndex = FIRST_DRAW
              /\ games[id].exists =>
                     \/ games'[id].deckIndex = games[id].deckIndex
                     \/ games'[id].deckIndex = games[id].deckIndex + 1 /\ ByDraw(id)]_vars

\* the whole deck drawn, 40 cards by the player and 8 by the dealer: dealerHit
\* is turned away
C11_Witness ==
    \E id \in GameIds :
        /\ games[id].exists /\ games[id].phase = DealerTurn
        /\ games[id].deckIndex = DECK_SIZE
        /\ games[id].playerSum.h.n = 41
        /\ dealerHit(State, games[id].player, id).err = "deck empty"

\* the plaintexts of the dealer's sum, base sum and ace count of hand g
DealerValues(g) == <<g.dealerSum.v, g.dealerBaseSum.v, g.dealerAceCount.v>>

\* C12: a successful dealerHit adds 1 to deckIndex; when dealerSum is at least
\* 17 at the call (the continue flag it computes is 0), dealerSum,
\* dealerBaseSum and dealerAceCount keep their values; when dealerSum is below
\* 17 they become what addCardToSum gives for deck[old deckIndex].
C12_DealerHitFrame ==
    \A id \in GameIds, a \in Players :
        LET g == games[id]
            r == dealerHit(State, a, id)
            n == r.s.games[id]
            added == addCardToSum(g.dealerBaseSum.v, g.dealerAceCount.v, g.deck[g.deckIndex])
        IN  g.exists /\ r.err = "" =>
                /\ n.deckIndex = g.deckIndex + 1
                /\ n.continueFlag.v = (IF g.dealerSum.v >= 17 THEN 0 ELSE 1)
                /\ g.dealerSum.v >= 17 => DealerValues(n) = DealerValues(g)
                /\ g.dealerSum.v < 17 =>
                       DealerValues(n) = <<added.finalSum, added.newBaseSum, added.newAceCount>>

\* the dealer stood on 7, drew 5 and 6 to 18, and the third card, a 7, was
\* drawn and not counted
C12_Witness ==
    \E id \in GameIds :
        /\ games[id].exists /\ games[id].phase = DealerTurn
        /\ games[id].deckIndex = FIRST_DRAW + 3
        /\ games[id].deck[FIRST_DRAW + 2] = 7
        /\ games[id].dealerSum.h.n = 4
        /\ DealerValues(games[id]) = <<18, 18, 0>>
        /\ games[id].continueFlag.v = 0

\* C13 as stated: after every successful dealerHit the dealerSum now stored,
\* the stored continueFlag and the card the call drew are all publicly
\* decryptable.
C13_DealerHitPublic ==
    \A id \in GameIds, a \in Players :
        LET g == games[id]
            r == dealerHit(State, a, id)
            n == r.s.games[id]
        IN  g.exists /\ r.err = "" =>
                /\ n.continueFlag.h \in r.s.publicDecrypt
                /\ DeckHandle(id, g.deckIndex) \in r.s.publicDecrypt
                /\ n.dealerSum.h \in r.s.publicDecrypt

\* after a dealerHit that counted its card: the continue flag and the card are
\* public and so is the sum the call started from, while the sum now stored is
\* granted to the owner only
C13_Witness ==
    \E id \in GameIds :
        LET g == games[id] IN
        /\ g.exists /\ g.phase = DealerTurn
        /\ g.deckIndex = FIRST_DRAW + 1
        /\ g.continueFlag.h \in publicDecrypt
        /\ DeckHandle(id, FIRST_DRAW) \in publicDecrypt
        /\ Handle(id, "dealerSum", g.dealerSum.h.n - 1) \in publicDecrypt
        /\ g.dealerSum.h \notin publicDecrypt
        /\ <<g.dealerSum.h, g.player>> \in allowed

\* the disclosure level of handle h in state s: 2 public, 1 decryptable by
\* the owner of the hand it belongs to, 0 neither
Level(s, h) ==
    IF h \in s.publicDecrypt THEN 2
    ELSE IF <<h, s.games[h.g].player>> \in s.allowed THEN 1
    ELSE 0

\* the handles some grant has been made on
Granted(s) == s.publicDecrypt \cup {p[1] : p \in s.allowed}

Totals6(g) == <<g.playerSum.v, g.playerBaseSum.v, g.playerAceCount.v,
                g.dealerSum.v, g.dealerBaseSum.v, g.dealerAceCount.v>>

\* C15: the step that creates a hand leaves it in PlayerTurn with deckIndex 4,
\* playerSum the Blackjack score of deck[0] and deck[1] and dealerSum the
\* score of deck[2] alone (11 for an Ace); a successful startGame by account a
\* makes a the owner, and the same call with any other card at deck[3] gives
\* the same sums and accumulators.
C15_StartDeal ==
    /\ [][\A id \in GameIds : Creates(id) =>
              LET n == games'[id] IN
              /\ n.phase = PlayerTurn
              /\ n.deckIndex = FIRST_DRAW
              /\ n.player \in Players
              /\ n.playerSum.v = BlackjackScore(<<n.deck[0], n.deck[1]>>)
              /\ n.dealerSum.v = BlackjackScore(<<n.deck[2]>>)
              /\ n.deck[2] = 1 => n.dealerSum.v = 11]_vars
    /\ [](nextGameId \in GameIds =>
              \A a \in Players, encDeck \in DeckDecks \cup TwinDecks :
                  LET r == startGame(State, a, encDeck, 2, 2)
                      n == r.s.games[nextGameId]
                  IN  r.err = "" =>
                          /\ n.player = a /\ n.exists
                          /\ n.phase = PlayerTurn /\ n.deckIndex = FIRST_DRAW
                          /\ \A hole \in CardCodes :
                                 Totals6(startGame(State, a, [encDeck EXCEPT ![3] = hole],
                                                   2, 2).s.games[nextGameId]) = Totals6(n))

\* just dealt: the player holds 10 and 9, the dealer shows an Ace over a ten;
\* the dealer's sum is 11, not 21
C15_Witness ==
    \E id \in GameIds :
        LET g == games[id] IN
        /\ g.exists /\ g.phase = PlayerTurn /\ g.deckIndex = FIRST_DRAW
        /\ g.player = "p1"
        /\ g.dealerCardUp.v = 1 /\ g.dealerHoleCard.v = 10
        /\ g.playerSum.v = 19
        /\ g.dealerSum.v = 11

\* the player's sum, base sum and ace count of hand g, as plaintexts
PlayerValues(g) == <<g.playerSum.v, g.playerBaseSum.v, g.playerAceCount.v>>

\* the ledger of state s
Ledger(s) == <<s.chipBalances, s.ethBalance, s.nextGameId>>

\* C16: a successful hit replaces playerSum, playerBaseSum and playerAceCount
\* by what addCardToSum gives for deck[old deckIndex], sets bustFlag to 1 when
\* the new playerSum is above 21 and to 0 otherwise, makes bustFlag public and
\* lets the owner decrypt the drawn card and the new playerSum; the phase, the
\* dealer's sum, base sum and ace count and the ledger are as before.
C16_HitEffect ==
    \A id \in GameIds, a \in Players :
        LET g == games[id]
            r == hit(State, a, id)
            n == r.s.games[id]
            added == addCardToSum(g.playerBaseSum.v, g.playerAceCount.v, g.deck[g.deckIndex])
        IN  g.exists /\ r.err = "" =>
                /\ PlayerValues(n) = <<added.finalSum, added.newBaseSum, added.newAceCount>>
                /\ n.bustFlag.v = (IF n.playerSum.v > 21 THEN 1 ELSE 0)
                /\ n.bustFlag.h \in r.s.publicDecrypt
                /\ <<DeckHandle(id, g.deckIndex), g.player>> \in r.s.allowed
                /\ <<n.playerSum.h, g.player>> \in r.s.allowed
                /\ n.phase = g.phase
                /\ <<n.dealerSum, n.dealerBaseSum, n.dealerAceCount>> =
                       <<g.dealerSum, g.dealerBaseSum, g.dealerAceCount>>
                /\ Ledger(r.s) = Ledger(State)

\* the player held 10 and 7 and drew a King: 27, bust, still PlayerTurn
C16_Witness ==
    \E id \in GameIds :
        LET g == games[id] IN
        /\ g.exists /\ g.phase = PlayerTurn
        /\ g.deckIndex = FIRST_DRAW + 1
        /\ g.deck[FIRST_DRAW] = 13
        /\ PlayerValues(g) = <<27, 27, 0>>
        /\ g.bustFlag.v = 1
        /\ g.bustFlag.h \in publicDecrypt
        /\ <<DeckHandle(id, FIRST_DRAW), g.player>> \in allowed

\* C17: a successful stand sets dealerSum to the Blackjack score of deck[2]
\* and deck[3], sets continueFlag to 1 when that sum is below 17 and to 0
\* otherwise, makes both public and the phase DealerTurn; deckIndex, the
\* player's sum, base sum and ace count and the ledger are as before.
C17_StandEffect ==
    \A id \in GameIds, a \in Players :
        LET g == games[id]
            r == stand(State, a, id)
            n == r.s.games[id]
        IN  g.exists /\ r.err = "" =>
                /\ n.dealerSum.v = BlackjackScore(<<g.deck[2], g.deck[3]>>)
                /\ n.continueFlag.v = (IF n.dealerSum.v < 17 THEN 1 ELSE 0)
                /\ n.dealerSum.h \in r.s.publicDecrypt
                /\ n.continueFlag.h \in r.s.publicDecrypt
                /\ n.phase = DealerTurn
                /\ n.deckIndex = g.deckIndex
                /\ <<n.playerSum, n.playerBaseSum, n.playerAceCount>> =
                       <<g.playerSum, g.playerBaseSum, g.playerAceCount>>
                /\ Ledger(r.s) = Ledger(State)

\* the player stood after one hit; the dealer's 10 and 7 make 17 and the
\* continue flag is 0, both public
C17_Witness ==
    \E id \in GameIds :
        LET g == games[id] IN
        /\ g.exists /\ g.phase = DealerTurn
        /\ g.deckIndex = FIRST_DRAW + 1
        /\ g.dealerSum.h.n = 1
        /\ g.dealerSum.v = 17
        /\ g.continueFlag.v = 0
        /\ {g.dealerSum.h, g.continueFlag.h} \subseteq publicDecrypt

\* C18: a successful endGame (the hand is in GameEnding or DealerTurn) sets
\* winFlag to 1 exactly when playerSum > dealerSum or dealerSum > 21, so a tie
\* gives 0, makes winFlag, playerCard1, playerCard2 and dealerHoleCard public
\* and the phase Completed; while a hand is not Completed neither its winFlag
\* nor its hole card is public.
C18_EndGameEffect ==
    \A id \in GameIds :
        LET g == games[id] IN
        g.exists =>
            /\ g.phase # Completed =>
                   /\ g.winFlag.h \notin publicDecrypt
                   /\ g.dealerHoleCard.h \notin publicDecrypt
            /\ \A a \in Players :
                   LET r == endGame(State, a, id)
                       n == r.s.games[id]
                   IN  /\ r.err = "" <=> g.phase \in {GameEnding, DealerTurn}
                       /\ r.err = "" =>
                              /\ n.winFlag.v = (IF g.playerSum.v > g.dealerSum.v
                                                   \/ g.dealerSum.v > 21 THEN 1 ELSE 0)
                              /\ g.playerSum.v = g.dealerSum.v /\ g.dealerSum.v <= 21
                                     => n.winFlag.v = 0
                              /\ {n.winFlag.h, g.playerCard1.h, g.playerCard2.h,
                                  g.dealerHoleCard.h} \subseteq r.s.publicDecrypt
                              /\ n.phase = Completed

\* player and dealer both ended on 17: the hand is Completed, winFlag is 0,
\* and the flag, the player's two cards and the hole card are public
C18_Witness ==
    \E id \in GameIds :
        LET g == games[id] IN
        /\ IsCompleted(id)
        /\ g.playerSum.v = 17 /\ g.dealerSum.v = 17
        /\ g.winFlag.v = 0
        /\ {g.winFlag.h, g.playerCard1.h, g.playerCard2.h, g.dealerHoleCard.h}
               \subseteq publicDecrypt

\* C19 as stated: a step that takes a hand from PlayerTurn to GameEnding
\* starts in a state where the hand's playerSum is above 21 and its bustFlag
\* is 1.
C19_SetBustOnlyOnBust ==
    [][\A id \in GameIds :
           games[id].exists /\ games[id].phase = PlayerTurn /\ games'[id].phase = GameEnding
               => games[id].playerSum.v > 21 /\ games[id].bustFlag.v = 1]_vars

\* the owner, holding 19 and not bust, moved the hand to GameEnding right
\* after the deal; endGame now compares 19 with the dealer's up card alone and
\* sets winFlag to 1
C19_Witness ==
    \E id \in GameIds :
        LET g == games[id] IN
        /\ g.exists /\ g.phase = GameEnding
        /\ g.deckIndex = FIRST_DRAW
        /\ g.playerSum.v = 19 /\ g.bustFlag.v = 0
        /\ g.dealerSum.v = 11 /\ g.dealerHoleCard.v = 10
        /\ endGame(State, g.player, id).s.games[id].winFlag.v = 1

\* C20 as stated: a step that takes a hand from DealerTurn to Completed starts
\* in a state where the hand's dealerSum is at least 17.
C20_DealerDrawsTo17 ==
    [][\A id \in GameIds :
           games[id].exists /\ games[id].phase = DealerTurn /\ games'[id].phase = Completed
               => games[id].dealerSum.v >= 17]_vars

\* the hand was ended right after stand: the dealer holds 3 and 4, drew no
\* card, and the player's 13 wins
C20_Witness ==
    \E id \in GameIds :
        LET g == games[id] IN
        /\ IsCompleted(id)
        /\ g.deckIndex = FIRST_DRAW
        /\ g.dealerSum.h.n = 1
        /\ g.dealerSum.v = 7
        /\ g.playerSum.v = 13
        /\ g.winFlag.v = 1

\* C21: on a Completed hand the owner's payoutWinner(id, true) succeeds every
\* time it is called: the first, second and third claim in a row each add
\* twice plainBetAmount to the owner's balance and leave the hand record as it
\* was, so three claims credit six times the bet.
C21_PayoutRepeats ==
    \A id \in GameIds :
        IsCompleted(id) =>
            LET o == games[id].player
                bet == games[id].plainBetAmount
                r1 == payoutWinner(State, o, id, TRUE)
                r2 == payoutWinner(r1.s, o, id, TRUE)
                r3 == payoutWinner(r2.s, o, id, TRUE)
            IN  /\ bet > 0
                /\ r1.err = "" /\ r2.err = "" /\ r3.err = ""
                /\ r1.s.chipBalances[o] = chipBalances[o] + 2 * bet
                /\ r2.s.chipBalances[o] = chipBalances[o] + 4 * bet
                /\ r3.s.chipBalances[o] = chipBalances[o] + 6 * bet
                /\ r1.s.games = games /\ r2.s.games = games /\ r3.s.games = games

\* p1 bought two chips, bet one, sold the other and claimed twice: four chips
\* from a bet of one
C21_Witness ==
    \E id \in GameIds :
        /\ IsCompleted(id)
        /\ games[id].plainBetAmount = 1
        /\ ethBalance = 10
        /\ chipBalances[games[id].player] = 4

\* what anyone learns of e in state s: its handle, and its plaintext when the
\* handle is publicly decryptable (-1: nothing)
PublicSeen(s, e) == <<e.h, IF e.h \in s.publicDecrypt THEN e.v ELSE -1>>

\* the publicly observable state: the plain fields of every hand, the ledger,
\* the access control list and every publicly decryptable value
PublicView(s) ==
    [hands |-> [id \in GameIds |->
                    LET g == s.games[id] IN
                    [player |-> g.player,
                     plainBetAmount |-> g.plainBetAmount,
                     deckIndex |-> g.deckIndex,
                     phase |-> g.phase,
                     exists |-> g.exists,
                     fields |-> [f \in EncryptedFields |-> PublicSeen(s, g[f])],
                     deck |-> [i \in 0..(DECK_SIZE - 1) |-> PublicSeen(s, deckAt(id, g, i))]]],
     ledger |-> Ledger(s),
     allowed |-> s.allowed,
     publicDecrypt |-> s.publicDecrypt]

\* nobody but the owner is granted the encrypted bet of any hand of s
BetHandleKept(s) ==
    \A id \in GameIds :
        LET g == s.games[id] IN
        g.exists =>
            /\ g.betAmount.h \notin s.publicDecrypt
            /\ \A a \in Players \ {g.player} : <<g.betAmount.h, a>> \notin s.allowed

\* C22 as stated: two runs that receive the same calls and differ in the
\* wager of the hand only have the same publicly observable state at every
\* step, and in neither run is the encrypted bet public or granted to an
\* account that is not the owner.
C22_WagerOpaque ==
    /\ BetHandleKept(runA) /\ BetHandleKept(runB)
    /\ PublicView(runA) = PublicView(runB)

\* the same hand started with wager 1 in run A and wager 2 in run B: the
\* stored plain bets and the owner's chip balances differ, while the encrypted
\* bet is granted to nobody
C22_Witness ==
    \E id \in GameIds :
        LET gA == runA.games[id]
            gB == runB.games[id]
        IN  /\ gA.exists /\ gB.exists
            /\ gA.betAmount.v = 1 /\ gB.betAmount.v = 2
            /\ gA.plainBetAmount = 1 /\ gB.plainBetAmount = 2
            /\ runA.chipBalances[gA.player] = 1 /\ runB.chipBalances[gB.player] = 0
            /\ gA.betAmount.h = gB.betAmount.h
            /\ BetHandleKept(runA) /\ BetHandleKept(runB)

\* C23 as stated: in every reachable state the plainBetAmount of every hand
\* equals the plaintext of its betAmount.
C23_BetsAgree ==
    \A id \in GameIds :
        games[id].exists => games[id].plainBetAmount = games[id].betAmount.v

\* a hand started with plainBet 1 and an encrypted bet of 2
C23_Witness ==
    \E id \in GameIds :
        /\ games[id].exists
        /\ games[id].plainBetAmount = 1
        /\ games[id].betAmount.v = 2
        /\ chipBalances[games[id].player] = 1

DeckEmpty(id) == games[id].exists /\ games[id].deckIndex = DECK_SIZE

\* the successful draws of hand g, counted from the versions of its sums:
\* each hit makes a new playerSum, stand and each dealerHit a new dealerSum
Draws(g) ==
    (g.playerSum.h.n - 1) + (IF g.dealerSum.h.n > 0 THEN g.dealerSum.h.n - 1 ELSE 0)

\* C24 as stated: when deckIndex is 52, every hit and every dealerHit on the
\* hand leaves the state unchanged and reports that the deck is empty.
C24_Original ==
    \A id \in GameIds, a \in Players :
        DeckEmpty(id) =>
            \A r \in DrawCalls(a, id) : r.s = State /\ r.err = "deck empty"

\* C24: when deckIndex is 52, every hit and every dealerHit on the hand
\* reverts and leaves the state unchanged; the reason is "deck empty" exactly
\* when the call passes the requires that come first (hit: the caller is the
\* owner and the phase is PlayerTurn; dealerHit: the phase is DealerTurn).  A
\* draw succeeds only at deckIndex 51 or below, and the draws that succeeded
\* on a hand number deckIndex - 4, at most 48.
C24_DeckExhausted ==
    \A id \in GameIds :
        LET g == games[id] IN
        g.exists =>
            /\ Draws(g) = g.deckIndex - FIRST_DRAW
            /\ Draws(g) <= DECK_SIZE - FIRST_DRAW
            /\ \A a \in Players :
                   /\ DeckEmpty(id) =>
                          /\ hitRequire(g, a) # "" /\ dealerHitRequire(g, a) # ""
                          /\ hitRequire(g, a) = "deck empty"
                                 <=> a = g.player /\ g.phase = PlayerTurn
                          /\ dealerHitRequire(g, a) = "deck empty" <=> g.phase = DealerTurn
                          /\ \A r \in DrawCalls(a, id) : r.s = State
                   /\ \A r \in DrawCalls(a, id) :
                          r.err = "" => g.deckIndex <= DECK_SIZE - 1

\* the player drew all 48 cards left after the deal: the owner's hit finds the
\* deck empty, the other account's hit and every dealerHit fail earlier
C24_Witness ==
    \E id \in GameIds :
        LET g == games[id] IN
        /\ DeckEmpty(id) /\ g.phase = PlayerTurn
        /\ g.playerSum.h.n = 49
        /\ hit(State, g.player, id).err = "deck empty"
        /\ \E a \in Players : hit(State, a, id).err = "invalid player"
        /\ dealerHit(State, g.player, id).err = "invalid state"

\* the revert reasons by the class of precondition they report
OwnershipReasons == {"invalid player", "only player can claim"}
PhaseReasons == {"wrong phase", "invalid state", "not finished"}

\* the reasons of every call account a can make on hand id
CallReasons(a, id) ==
    {hit(State, a, id).err, stand(State, a, id).err, setBustPhase(State, a, id).err,
     dealerHit(State, a, id).err, endGame(State, a, id).err,
     payoutWinner(State, a, id, TRUE).err, payoutWinner(State, a, id, FALSE).err}

\* C25 as stated: a call that violates exactly one precondition reports the
\* reason of that precondition's class (ownership, phase, deck exhaustion,
\* bet not positive, balance too small), and a call on an identifier that
\* names no hand reports neither an ownership nor a phase reason.
C25_ReasonsDistinguish ==
    /\ \A a \in Players, plainBet \in 0..(MaxBalance + 1) :
           LET e == startGameRequire(State, a, plainBet) IN
           /\ plainBet = 0 => e = "Bet required"
           /\ plainBet > 0 /\ chipBalances[a] < plainBet => e = "Insufficient CHIP balance"
    /\ \A id \in GameIds, a \in Players :
           LET g == games[id]
               owner == a = g.player
               cards == g.deckIndex < DECK_SIZE
           IN  /\ g.exists =>
                      /\ ~owner /\ g.phase = PlayerTurn /\ cards =>
                             {hit(State, a, id).err, stand(State, a, id).err,
                              setBustPhase(State, a, id).err} \subseteq OwnershipReasons
                      /\ owner /\ g.phase # PlayerTurn /\ cards =>
                             {hit(State, a, id).err, stand(State, a, id).err,
                              setBustPhase(State, a, id).err} \subseteq PhaseReasons
                      /\ owner /\ g.phase = PlayerTurn /\ ~cards =>
                             hit(State, a, id).err = "deck empty"
                      /\ g.phase # DealerTurn /\ cards =>
                             dealerHit(State, a, id).err \in PhaseReasons
                      /\ g.phase = DealerTurn /\ ~cards =>
                             dealerHit(State, a, id).err = "deck empty"
                      /\ g.phase \notin {GameEnding, DealerTurn} =>
                             endGame(State, a, id).err \in PhaseReasons
                      /\ owner /\ g.phase # Completed =>
                             payoutWinner(State, a, id, TRUE).err \in PhaseReasons
                      /\ ~owner /\ g.phase = Completed =>
                             payoutWinner(State, a, id, TRUE).err \in OwnershipReasons
               /\ ~g.exists =>
                      CallReasons(a, id) \cap (OwnershipReasons \cup PhaseReasons) = {}

\* hand 1 exists in PlayerTurn and identifier 0 names no hand: hit reports
\* "invalid player" for the stranger on hand 1 and for anyone on hand 0,
\* dealerHit reports "invalid state" on both, payoutWinner alone says "no game"
C25_Witness ==
    /\ games[1].exists /\ games[1].phase = PlayerTurn /\ ~games[0].exists
    /\ \E a \in Players :
           /\ a # games[1].player
           /\ hit(State, a, 1).err = "invalid player"
           /\ hit(State, a, 0).err = "invalid player"
           /\ dealerHit(State, a, 1).err = "invalid state"
           /\ dealerHit(State, a, 0).err = "invalid state"
           /\ payoutWinner(State, a, 0, TRUE).err = "no game"

\* the outcomes of every call that names hand id, by account a
HandCalls(a, id) ==
    {hit(State, a, id), stand(State, a, id), dealerHit(State, a, id),
     setBustPhase(State, a, id), endGame(State, a, id),
     payoutWinner(State, a, id, TRUE), payoutWinner(State, a, id, FALSE)}

\* C26: a call that names hand A, accepted or rejected, leaves every field of
\* every other hand as it was and changes no chip balance but that of A's
\* owner; startGame changes no hand but the one it creates and no chip balance
\* but the caller's.
C26_HandsIndependent ==
    /\ \A A \in GameIds, a \in Players :
           \A r \in HandCalls(a, A) :
               /\ \A B \in GameIds \ {A} : r.s.games[B] = games[B]
               /\ \A b \in Players \ {games[A].player} :
                      r.s.chipBalances[b] = chipBalances[b]
    /\ nextGameId \in GameIds =>
           \A a \in Players, encDeck \in HandsDecks, encryptedBet \in EncryptedBets,
              plainBet \in PlainBets :
               LET r == startGame(State, a, encDeck, encryptedBet, plainBet)
               IN  /\ \A B \in GameIds \ {nextGameId} : r.s.games[B] = games[B]
                   /\ \A b \in Players \ {a} : r.s.chipBalances[b] = chipBalances[b]

\* two hands of different owners, the first finished and paid, the second
\* still in the player's turn after a hit
C26_Witness ==
    /\ games[1].exists /\ games[2].exists
    /\ games[1].player # games[2].player
    /\ games[1].phase = Completed
    /\ chipBalances[games[1].player] = 2 * games[1].plainBetAmount
    /\ games[2].phase = PlayerTurn
    /\ games[2].deckIndex = FIRST_DRAW + 1

\* the identifiers that name an existing hand
Existing == {id \in GameIds : games[id].exists}

\* C27: the existing hands are exactly those numbered 1 .. nextGameId - 1, so
\* 0 never names one; a step either leaves nextGameId and the set of existing
\* hands as they were, or creates the hand numbered nextGameId, which did not
\* exist, and raises nextGameId by one; a hand that exists exists ever after.
C27_IdsIncrease ==
    /\ [](Existing = {id \in GameIds : 1 <= id /\ id < nextGameId})
    /\ [](~games[0].exists)
    /\ [][/\ Existing \subseteq Existing'
          /\ \/ nextGameId' = nextGameId /\ Existing' = Existing
             \/ /\ nextGameId' = nextGameId + 1
                /\ nextGameId \notin Existing
                /\ Existing' = Existing \cup {nextGameId}]_vars

\* a second hand has been created while the first, finished, still exists
C27_Witness ==
    /\ nextGameId = 3
    /\ Existing = {1, 2}
    /\ games[1].phase = Completed
    /\ games[2].phase = DealerTurn

\* what startGame fixes for a hand: owner, deck and the two forms of the bet
Fixed(g) == <<g.player, g.deck, g.plainBetAmount, g.betAmount>>

\* C28: no step changes the owner, the 52 deck entries, plainBetAmount or
\* betAmount of a hand that exists; in every state playerCard1, playerCard2,
\* dealerCardUp and dealerHoleCard of an existing hand are deck[0], deck[1],
\* deck[2] and deck[3].
C28_FixedAtStart ==
    /\ [][\A id \in GameIds :
              games[id].exists => Fixed(games'[id]) = Fixed(games[id])]_vars
    /\ [](\A id \in GameIds :
              LET g == games[id] IN
              g.exists =>
                  /\ g.playerCard1 = deckAt(id, g, 0)
                  /\ g.playerCard2 = deckAt(id, g, 1)
                  /\ g.dealerCardUp = deckAt(id, g, 2)
                  /\ g.dealerHoleCard = deckAt(id, g, 3))

\* a hand played to the end through a hit, stand and a dealer draw, its bet
\* and hole card as startGame left them
C28_Witness ==
    \E id \in GameIds :
        LET g == games[id] IN
        /\ g.exists /\ g.phase = Completed
        /\ g.deckIndex >= FIRST_DRAW + 2
        /\ g.dealerSum.h.n >= 2
        /\ g.playerSum.h.n >= 2
        /\ g.plainBetAmount = 2
        /\ g.dealerHoleCard = deckAt(id, g, 3)

\* the base value the rules give a card code: 10 for Jack, Queen and King,
\* 1 for the Ace, the code itself for 2..10
RuleValue(c) == IF c \in {11, 12, 13} THEN 10 ELSE IF c = 1 THEN 1 ELSE c

\* C29: getBlackjackBaseValue gives 10 for 11, 12 and 13, 1 for 1 and c for
\* each c in 2..10; accordingly every card added to a hand raises the base
\* sum by that value.
C29_BaseValue ==
    /\ [](\A c \in CardCodes :
              /\ c \in {11, 12, 13} => getBlackjackBaseValue(c) = 10
              /\ c = 1 => getBlackjackBaseValue(c) = 1
              /\ c \in 2..10 => getBlackjackBaseValue(c) = c)
    /\ [][\A c \in CardCodes :
              hand'.cards = Append(hand.cards, c) =>
                  hand'.newBaseSum = hand.newBaseSum + RuleValue(c)]_vars

\* Jack, Queen, King and Ace added in turn: base sum 31
C29_Witness == hand.cards = <<11, 12, 13, 1>> /\ hand.newBaseSum = 31

\* C30: for the base sum of the hand and every ace count up to MaxCards,
\* calculateBlackjackSum gives the base sum plus 10 exactly when the ace
\* count is positive and the base sum plus 10 is at most 21, and the base sum
\* itself in every other case; finalSum of the hand is that value for the
\* hand's own ace count.
C30_SoftAce ==
    /\ \A aceCount \in 0..MaxCards :
           LET baseSum == hand.newBaseSum
               soft == aceCount > 0 /\ baseSum + 10 <= 21
               sum == calculateBlackjackSum(baseSum, aceCount)
           IN  /\ sum = baseSum + 10 <=> soft
               /\ ~soft => sum = baseSum
    /\ hand.finalSum = calculateBlackjackSum(hand.newBaseSum, hand.newAceCount)

\* a ten and an Ace: base sum 11 with one Ace, the boundary at which the
\* Ace still counts eleven
C30_Witness ==
    /\ hand.cards = <<10, 1>>
    /\ hand.newBaseSum = 11 /\ hand.newAceCount = 1
    /\ hand.finalSum = 21

\* C31 as stated: a Completed hand whose playerSum is above 21 has winFlag 0.
C31_BustedNeverWins ==
    \A id \in GameIds :
        IsCompleted(id) /\ games[id].playerSum.v > 21 => games[id].winFlag.v = 0

\* the player held 17, drew a King (27, bustFlag 1), setBustPhase and endGame
\* followed: dealerSum is still the up card's 10 and winFlag is 1
C31_Witness ==
    \E id \in GameIds :
        LET g == games[id] IN
        /\ IsCompleted(id)
        /\ g.playerSum.v = 27 /\ g.bustFlag.v = 1
        /\ g.dealerSum.h.n = 0 /\ g.dealerSum.v = 10
        /\ g.winFlag.v = 1

\* C32 as stated: a payoutWinner call, by any account with either value of
\* playerWon, raises a chip balance only when the hand's winFlag is 1.
C32_PaidOnlyIfWon ==
    \A id \in GameIds, a \in Players, playerWon \in BOOLEAN :
        LET r == payoutWinner(State, a, id, playerWon) IN
        (\E b \in Players : r.s.chipBalances[b] > chipBalances[b])
            => games[id].winFlag.v = 1

\* the player's 19 lost to the dealer's 21 (winFlag 0), and the owner's claim
\* with playerWon = true is accepted and adds twice the bet
C32_Witness ==
    \E id \in GameIds :
        LET g == games[id]
            r == payoutWinner(State, g.player, id, TRUE)
        IN  /\ IsCompleted(id)
            /\ g.playerSum.v = 19 /\ g.dealerSum.v = 21
            /\ g.winFlag.v = 0
            /\ r.err = ""
            /\ r.s.chipBalances[g.player] = chipBalances[g.player] + 2 * g.plainBetAmount
            /\ g.plainBetAmount > 0

\* C33 as stated: while a hand is in DealerTurn its continueFlag is 1 exactly
\* when its dealerSum is below 17.
C33_ContinueFlagCurrent ==
    \A id \in GameIds :
        LET g == games[id] IN
        g.exists /\ g.phase = DealerTurn =>
            (g.continueFlag.v = 1 <=> g.dealerSum.v < 17)

\* the dealer held 3 and 4, drew 5 and then 6: dealerSum is 18 and the
\* continueFlag computed by the second dealerHit, from the 12 before it, is 1
C33_Witness ==
    \E id \in GameIds :
        LET g == games[id] IN
        /\ g.exists /\ g.phase = DealerTurn
        /\ g.deckIndex = FIRST_DRAW + 2
        /\ g.dealerSum.h.n = 3
        /\ g.dealerSum.v = 18
        /\ g.continueFlag.v = 1

\* C34: bustFlag of an existing hand is 0 or 1, and is 1 exactly when
\* playerSum is above 21; whatever two cards 1..13 lead the deck, an accepted
\* startGame leaves bustFlag 0 and a playerSum of at most 21.
C34_BustFlagTracksSum ==
    /\ \A id \in GameIds :
           LET g == games[id] IN
           g.exists =>
               /\ g.bustFlag.v \in {0, 1}
               /\ g.bustFlag.v = 1 <=> g.playerSum.v > 21
    /\ nextGameId = 1 =>
           \A a \in Depositors, c1 \in CardCodes, c2 \in CardCodes,
              encryptedBet \in EncryptedBets, plainBet \in DeckBets :
               LET r == startGame(State, a, DeckFrom(<<c1, c2>>), encryptedBet, plainBet)
                   n == r.s.games[nextGameId]
               IN  r.err = "" =>
                       /\ n.bustFlag.v = 0
                       /\ n.playerSum.v <= 21
                       /\ n.playerSum.v = BlackjackScore(<<c1, c2>>)

\* the player's 17 took a King: playerSum 27 with bustFlag 1, still in the
\* player's turn
C34_Witness ==
    \E id \in GameIds :
        LET g == games[id] IN
        /\ g.exists /\ g.phase = PlayerTurn
        /\ g.deckIndex = FIRST_DRAW + 1
        /\ g.playerSum.v = 27
        /\ g.bustFlag.v = 1
        /\ chipBalances[g.player] = 0

\* the calls on hand id that are accepted and move it to a later phase
Advancing(id) ==
    {r \in UNION {{stand(State, a, id), setBustPhase(State, a, id), endGame(State, a, id)}
                  : a \in Players} :
        r.err = "" /\ Rank(r.s.games[id].phase) > Rank(games[id].phase)}

\* C35: in every state every existing hand that is not Completed has an
\* accepted call that moves it to a later phase (stand or setBustPhase by the
\* owner in PlayerTurn, endGame in DealerTurn and GameEnding), with or without
\* cards left in the deck; when such calls are not withheld for ever, every
\* hand that exists is eventually Completed.
C35_NoHandStuck ==
    /\ [](\A id \in GameIds :
              games[id].exists /\ games[id].phase # Completed => Advancing(id) # {})
    /\ \A id \in GameIds : games[id].exists ~> IsCompleted(id)

\* a hand finished after all 48 remaining cards were drawn
C35_Witness ==
    \E id \in GameIds : IsCompleted(id) /\ games[id].deckIndex = DECK_SIZE

\* C36: on an existing hand in DealerTurn with a card left, dealerHit is
\* accepted from every account, and on an existing hand in DealerTurn or
\* GameEnding endGame is accepted from every account; the outcome of either
\* call, accepted or not, is the same whichever account sends it.
C36_AnyCaller ==
    \A id \in GameIds :
        LET g == games[id] IN
        /\ g.exists /\ g.phase = DealerTurn /\ g.deckIndex < DECK_SIZE =>
               \A a \in Players : dealerHit(State, a, id).err = ""
        /\ g.exists /\ g.phase \in {DealerTurn, GameEnding} =>
               \A a \in Players : endGame(State, a, id).err = ""
        /\ \A a \in Players, b \in Players :
               /\ dealerHit(State, a, id) = dealerHit(State, b, id)
               /\ endGame(State, a, id) = endGame(State, b, id)

\* a hand in the dealer's turn after one dealer draw, where an account other
\* than the owner can send the next dealerHit and endGame
C36_Witness ==
    \E id \in GameIds :
        LET g == games[id] IN
        /\ g.exists /\ g.phase = DealerTurn
        /\ g.dealerSum.h.n = 2
        /\ \E a \in Players \ {g.player} :
               /\ dealerHit(State, a, id).err = ""
               /\ dealerHit(State, a, id).s.games[id].deckIndex = g.deckIndex + 1
               /\ endGame(State, a, id).s.games[id].phase = Completed

\* x is below 2^32
Below2to32(x) == x >= 0 /\ x \div 65536 < 65536

\* the cards added so far to the player's and to the dealer's accumulators,
\* read off the version of the sum handles: two at startGame and one per hit;
\* one at startGame, one at stand and at most one per dealerHit
PlayerCardsAdded(g) == g.playerSum.h.n + 1
DealerCardsAdded(g) == g.dealerSum.h.n + 1

\* C37: on decks of arbitrary codes 0..255 the base sum of each side is at
\* most 255 times the cards added to it, each sum is at most its base sum
\* plus 10, and each ace count is at most the cards added; as at most 52 cards
\* are added and 255 * 52 + 10 is below 2^32, no 32-bit accumulator wraps.
C37_NoWrap ==
    /\ Below2to32(MAX_CODE * DECK_SIZE + 10)
    /\ \A id \in GameIds :
           LET g == games[id] IN
           g.exists =>
               /\ PlayerCardsAdded(g) + DealerCardsAdded(g) <= DECK_SIZE
               /\ g.playerBaseSum.v <= MAX_CODE * PlayerCardsAdded(g)
               /\ g.dealerBaseSum.v <= MAX_CODE * DealerCardsAdded(g)
               /\ g.playerSum.v <= g.playerBaseSum.v + 10
               /\ g.dealerSum.v <= g.dealerBaseSum.v + 10
               /\ g.playerAceCount.v <= PlayerCardsAdded(g)
               /\ g.dealerAceCount.v <= DealerCardsAdded(g)
               /\ \A e \in {g.playerBaseSum, g.dealerBaseSum, g.playerAceCount,
                            g.dealerAceCount, g.playerSum, g.dealerSum} :
                      Below2to32(e.v)

\* the player drew every card left of the all-255 deck: 50 cards, base sum
\* 12750
C37_Witness ==
    \E id \in GameIds :
        LET g == games[id] IN
        /\ g.exists /\ g.deckIndex = DECK_SIZE
        /\ PlayerCardsAdded(g) = 50
        /\ g.playerBaseSum.v = 50 * MAX_CODE
        /\ g.playerSum.v = 50 * MAX_CODE

\* C38: a run of handleDealerTurn calls dealerHit at most 10 times and endGame
\* at most once, has called endGame exactly once when it returns, and, once
\* past the first gateway wait, does return.
C38_DealerLoopTerminates ==
    /\ [](app.dealer.dealerHits <= 10)
    /\ [](app.dealer.endGames <= 1)
    /\ [](app.dealer.pc = "returned" => app.dealer.endGames = 1)
    /\ [](app.dealer.pc \in {"while", "preHit", "dealerHit", "waitAfterHit", "postHit"}
              => app.dealer.endGames = 0)
    /\ (app.dealer.pc = "while") ~> (app.dealer.pc = "returned")

\* the loop ran all ten iterations, each with a dealerHit, and endGame was
\* called once
C38_Witness ==
    /\ app.dealer.pc = "returned"
    /\ app.dealer.dealerHits = 10
    /\ app.dealer.maxIterations = -1
    /\ app.dealer.endGames = 1

\* invocation k is between its entry and its return
InProgress(k) == app.calls[k].handler # "none" /\ app.calls[k].pc # "returned"

\* C39 as stated: when an invocation that set actionInProgress returns, the
\* lock is false; and an invocation of handleHit or handleStand made while
\* another handleHit or handleStand is in progress returns at once and sends
\* no transaction.
C39_LockReleased ==
    /\ [][\A k \in Calls :
              app.calls[k].locked /\ InProgress(k) /\ app'.calls[k].pc = "returned"
                  => ~app'.actionInProgress]_vars
    /\ [][\A k \in Calls :
              /\ app.calls[k] = NoCall
              /\ app'.calls[k].handler \in {"handleHit", "handleStand"}
              /\ \E j \in Calls \ {k} :
                     InProgress(j) /\ app.calls[j].handler \in {"handleHit", "handleStand"}
              => app'.calls[k].pc = "returned"]_vars
    /\ [](\A k \in Calls : app.calls[k].sent => app.calls[k].locked)

\* handleStartGame returned from a failed validation, no handler is running
\* and the lock is still set
C39_Witness ==
    /\ app.actionInProgress
    /\ \A k \in Calls : ~InProgress(k)
    /\ \E k \in Calls :
           /\ app.calls[k].handler = "handleStartGame"
           /\ app.calls[k].locked /\ ~app.calls[k].sent
           /\ app.calls[k].pc = "returned"

====
